---- MODULE Spec2Model ----
(***************************************************************************)
(* Linea user analytics: extraction (chunked, paginated, retrying fetch;   *)
(* parallel per-wallet fetch with checkpoints) and bulk load (full refresh *)
(* per destination table) as state machines.                               *)
(*                                                                         *)
(*   SpecFetch    one paginated query: get_logs_for_range, get_transactions*)
(*   SpecChunk    get_all_logs: the block-range chunk loop                 *)
(*   SpecExtract  extract_all_wallet_transactions: worker pool, collector  *)
(*   SpecLoad     load_all_parquet_files_to_raw_tables and                 *)
(*                load_all_transformed_data against one connection         *)
(*   SpecTransform  transform_logs: hex_to_int, hex_to_address,            *)
(*                decode_data, parse_logs on bounded inputs                *)
(***************************************************************************)
EXTENDS Integers, Sequences, FiniteSets, TLC

VARIABLES
    \* ---- one paginated query (SpecFetch)
    fn,              \* "logs" (get_logs_for_range) or "txs" (get_transactions)
    max_retries,     \* the call's max_retries argument
    fetch,           \* the call's locals: page, attempt, accumulated rows, position
    lastResp,        \* kind of the response the last attempt received
    lastSleep,       \* the time.sleep the last attempt ended with
    block_call,      \* the call of get_block_by_date: position, requests made, outcome
    \* ---- get_all_logs (SpecChunk)
    from_block, to_block, chunk_size,
    current_block, chunk_num, all_logs,
    ranges,          \* the (fromBlock, toBlock) pairs requested so far, in order
    cpc,             \* position of get_all_logs
    \* ---- extract_all_wallet_transactions (SpecExtract)
    wallets, checkpoint_every, max_workers,
    futures,         \* per submitted wallet: state of its future and its result
    all_transactions, processed, wallets_with_txs,
    output_file,     \* rows of the CSV at output_path
    nsaves,          \* number of to_csv writes of this run
    lastSave,        \* what the last step wrote: "none", "checkpoint" or "final"
    epc,             \* position of extract_all_wallet_transactions
    \* ---- the loaders (SpecLoad)
    loader,          \* "parquet" or "transformed"
    truncate_existing,
    parts,           \* the partitions of the run, in processing order
    db,              \* committed content of each destination table
    tx,              \* content as the open connection sees it (uncommitted included)
    ci, fi,          \* index of the partition and of the file being processed
    lpc,             \* position of the loader
    total_inserted,  \* the parquet loader's running total
    results,         \* the transformed loader's results dictionary
    hist,            \* per table: the statements the run issued for it, in order
    db0,             \* the committed tables when the run began
    closes,          \* how many times conn.close() was called
    \* ---- transform_logs (SpecTransform)
    tfn,             \* the function called last
    targ,            \* its argument
    tres             \* what it returned, or the exception it raised

fetchVars   == <<fn, max_retries, fetch, lastResp, lastSleep, block_call>>
chunkVars   == <<from_block, to_block, chunk_size, current_block, chunk_num,
                 all_logs, ranges, cpc>>
extractVars == <<wallets, checkpoint_every, max_workers, futures,
                 all_transactions, processed, wallets_with_txs, output_file,
                 nsaves, lastSave, epc>>
loadVars    == <<loader, truncate_existing, parts, db, tx, ci, fi, lpc,
                 total_inserted, results, hist, db0, closes>>
transformVars == <<tfn, targ, tres>>
vars        == <<fetchVars, chunkVars, extractVars, loadVars, transformVars>>

\* What a step of one program leaves alone: the other programs.
otherThanFetch   == <<chunkVars, extractVars, loadVars, transformVars>>
otherThanChunk   == <<fetchVars, extractVars, loadVars, transformVars>>
otherThanExtract == <<fetchVars, chunkVars, loadVars, transformVars>>
otherThanLoad    == <<fetchVars, chunkVars, extractVars, transformVars>>
otherThanTransform == <<fetchVars, chunkVars, extractVars, loadVars>>

(***************************************************************************)
(* Bounds of the model.                                                    *)
(***************************************************************************)
\* Rows of a full page; stands for the request's "offset": 1000.
PageSize == 2
\* Full pages the API serves for one query; stands for the 10,000-result
\* ceiling (10 pages of 1000).
MaxPages == 2
\* Largest max_retries a call is given.
MaxRetries == 3
\* Largest block number the API answers a date with.
MaxBlockNo == 3

(***************************************************************************)
(* Program constants.                                                      *)
(***************************************************************************)
\* time.sleep((attempt + 1) * 2): seconds per retry index.
RETRY_DELAY == 2
\* REQUEST_DELAY = 0.15 seconds, in milliseconds.
REQUEST_DELAY_MS == 150
\* max_retries default of get_logs_for_range.
LOGS_MAX_RETRIES == 3
\* max_retries default of get_transactions, which fetch_wallet relies on.
TXS_MAX_RETRIES == 5

\* len(data_hex) < 130 in decode_data.
DATA_MIN_CHARS == 130
\* hex_str[-40:] in hex_to_address.
ADDRESS_CHARS == 40
\* Hex characters of one 32-byte word: format(n, '064x'), data[0:64].
WORD_CHARS == 64
\* The exponent of 1e18, the number of wei in one ether.
ETH_DECIMALS == 18
\* The exponent of 1e9, the number of wei in one gwei.
GWEI_DECIMALS == 9
\* The significant bits of a Python float.
MANTISSA_BITS == 53
\* The blocks validate_logs expects the logs to lie in.
LOGS_MIN_BLOCK == 17000000
LOGS_MAX_BLOCK == 30000000
\* The blocks validate_transactions expects the transactions to lie in.
TXS_MIN_BLOCK == 0
TXS_MAX_BLOCK == 100000000

NoTag == "<none>"

(***************************************************************************)
(* The remote API, as one attempt sees it.                                  *)
(*   neterr        session.get raises (connection error, timeout)          *)
(*   http_text     status != 200, body is not JSON                         *)
(*   http_json     status != 200, body is a JSON object without status "1" *)
(*   empty         status 200, empty body                                  *)
(*   garbage       status 200, body is not JSON                            *)
(*   jsonnull      status 200, body is the JSON value null                 *)
(*   jsonlist      status 200, body is JSON but not an object              *)
(*   norecords     {"status": "0", "result": "No records found"}           *)
(*   apierr        {"status": "0", "result": <another message>}            *)
(*   page_empty    {"status": "1", "result": []}                           *)
(*   page          {"status": "1", "result": [n rows]}, 1 <= n <= PageSize *)
(* A page of rows is served only within the result ceiling. The provider   *)
(* does not echo the queried wallet; "echo" is whatever "wallet" field a   *)
(* transaction row arrives with.                                           *)
(***************************************************************************)
FailureKinds == {"neterr", "http_text", "http_json", "empty", "garbage",
                 "jsonnull", "jsonlist"}
AnswerKinds  == {"norecords", "apierr", "page_empty"}

Responses(f, page) ==
    {[kind |-> k, n |-> 0, echo |-> NoTag] : k \in FailureKinds \cup AnswerKinds}
    \cup {[kind |-> "page", n |-> n, echo |-> e] :
            n \in (IF page <= MaxPages THEN 1..PageSize ELSE {}),
            e \in (IF f = "txs" THEN {NoTag, "0xother"} ELSE {NoTag})}

\* The rows of one page of query q, as the API returns them.
Batch(q, page, resp) ==
    [i \in 1..resp.n |-> [q |-> q, page |-> page, idx |-> i, wallet |-> resp.echo]]

\* A call's locals at entry: all_txs / logs = [], page = 1.
FetchStart ==
    [page |-> 1, attempt |-> 0, rows |-> <<>>, pc |-> "request", why |-> ""]

\* Sleeps are recorded in milliseconds.
NoSleep == [kind |-> "none", ms |-> 0]

\* Mutant: the last failed attempt raises instead of returning.
RetryOrRaise(f, maxr) ==
    IF f.attempt < maxr - 1
    THEN [f     |-> [f EXCEPT !.attempt = f.attempt + 1],
          sleep |-> [kind |-> "retry",
                    ms   |-> (f.attempt + 1) * RETRY_DELAY * 1000]]
    ELSE [f     |-> [f EXCEPT !.pc = "raised", !.why = "exhausted"],
          sleep |-> [kind |-> "none", ms |-> 0]]
\* A failed attempt of the retry loop: sleep (attempt + 1) * 2 and try again,
\* or return what was collected when it was the last attempt.
RetryOrReturn(f, maxr) ==
    IF f.attempt < maxr - 1
    THEN [f     |-> [f EXCEPT !.attempt = f.attempt + 1],
          sleep |-> [kind |-> "retry",
                    ms   |-> (f.attempt + 1) * RETRY_DELAY * 1000]]
    ELSE [f     |-> [f EXCEPT !.pc = "returned", !.why = "exhausted"],
          sleep |-> NoSleep]

\* Mutant: a "no records" answer is taken for an API error and raised.
ReturnedUnlessNoRecords(f, why) ==
    IF why = "norecords"
    THEN [f |-> [f EXCEPT !.pc = "raised", !.why = "ValueError"],
          sleep |-> NoSleep]
    ELSE [f |-> [f EXCEPT !.pc = "returned", !.why = why], sleep |-> NoSleep]
\* break out of the page loop, then return logs / return all_txs
Returned(f, why) ==
    [f |-> [f EXCEPT !.pc = "returned", !.why = why], sleep |-> NoSleep]

Raised(f, why) ==
    [f |-> [f EXCEPT !.pc = "raised", !.why = why], sleep |-> NoSleep]

\* Mutant: the page counter skips a page.
NextPageSkipsOne(f, rows) ==
    [f     |-> [f EXCEPT !.rows = rows, !.page = f.page + 2, !.attempt = 0],
     sleep |-> [kind |-> "request_delay", ms |-> REQUEST_DELAY_MS]]
\* page += 1; time.sleep(REQUEST_DELAY); the retry loop starts over.
NextPage(f, rows) ==
    [f     |-> [f EXCEPT !.rows = rows, !.page = f.page + 1, !.attempt = 0],
     sleep |-> [kind |-> "request_delay", ms |-> REQUEST_DELAY_MS]]

\* Mutant: a page one row short of full is taken for a full page.
IsLastPageOffByOne(n) == n < PageSize - 1
\* if len(batch) < 1000: break
IsLastPage(n) == n < PageSize

\* Mutant: the rows are left as the provider sent them.
TagWalletSkipped(batch, address) == batch
\* for tx in batch: tx["wallet"] = address
TagWallet(batch, address) ==
    [i \in DOMAIN batch |-> [batch[i] EXCEPT !.wallet = address]]

\* Rows of a page after the loop body of get_transactions took them.
TxsTake(f, address, resp) ==
    f.rows \o TagWallet(Batch(address, f.page, resp), address)

\* One attempt of get_transactions for `address`, and what follows it up to
\* the next request.
GetTransactionsAttempt(f, resp, address, maxr) ==
    CASE resp.kind \in {"http_text", "http_json"} -> RetryOrReturn(f, maxr)
      [] resp.kind = "empty"      -> RetryOrReturn(f, maxr)
      [] resp.kind = "garbage"    -> RetryOrReturn(f, maxr)
      [] resp.kind = "neterr"     -> RetryOrReturn(f, maxr)
      [] resp.kind = "jsonnull"   -> Returned(f, "nodata")
      [] resp.kind = "jsonlist"   -> Raised(f, "AttributeError")
      [] resp.kind = "norecords"  -> Returned(f, "norecords")
      [] resp.kind = "apierr"     -> Returned(f, "apierr")
      [] resp.kind = "page_empty" -> Returned(f, "emptybatch")
      [] resp.kind = "page" ->
            IF IsLastPage(resp.n)
            THEN Returned([f EXCEPT !.rows = TxsTake(f, address, resp)], "lastpage")
            ELSE NextPage(f, TxsTake(f, address, resp))

\* One attempt of get_logs_for_range for the query q, and what follows it up
\* to the next request. Only what raises inside the try is retried: the
\* status code is not looked at, and data.get runs outside the try.
GetLogsForRangeAttempt(f, resp, q, maxr) ==
    CASE resp.kind \in {"neterr", "http_text", "empty", "garbage"} ->
            RetryOrReturn(f, maxr)
      [] resp.kind = "http_json"  -> Returned(f, "apierr")
      [] resp.kind \in {"jsonnull", "jsonlist"} -> Raised(f, "AttributeError")
      [] resp.kind = "norecords"  -> Returned(f, "norecords")
      [] resp.kind = "apierr"     -> Returned(f, "apierr")
      [] resp.kind = "page_empty" -> Returned(f, "emptybatch")
      [] resp.kind = "page" ->
            IF IsLastPage(resp.n)
            THEN Returned([f EXCEPT !.rows = f.rows \o Batch(q, f.page, resp)],
                          "lastpage")
            ELSE NextPage(f, f.rows \o Batch(q, f.page, resp))

(***************************************************************************)
(* SpecFetch: calls of get_logs_for_range and get_transactions, one        *)
(* attempt per step. A new call starts when the previous one has ended.    *)
(***************************************************************************)
\* The query of the calls: a wallet address, a block range.
FetchAddress == "0xa1"
FetchRange   == <<1, 2>>

(***************************************************************************)
(* block_utils.py: get_block_by_date asks the API once for the block of a  *)
(* date.  What can come of the request:                                    *)
(*   neterr        requests.get raises (no connection, timeout)            *)
(*   garbage       the body is not JSON                                    *)
(*   jsonnull      the body is JSON but not an object                      *)
(*   status0       {"status": "0", ...}                                    *)
(*   status1_bad   {"status": "1", "result": <not an integer>}             *)
(*   status1       {"status": "1", "result": "<block>"}                    *)
(***************************************************************************)
BlockResponses ==
    {[kind |-> k, block |-> 0] :
        k \in {"neterr", "garbage", "jsonnull", "status0", "status1_bad"}}
    \cup {[kind |-> "status1", block |-> b] : b \in 0..MaxBlockNo}

BlockCall(pc, requests, resp, result, error) ==
    [pc |-> pc, requests |-> requests, resp |-> resp, result |-> result,
     error |-> error]

NoResponse == [kind |-> "none", block |-> 0]

BlockIdle == block_call = BlockCall("idle", 0, NoResponse, 0, "")

\* Mutant: an answer without status "1" gives block 0.
GetBlockByDateDefault(resp) ==
    IF resp.kind = "neterr" THEN BlockCall("raised", 1, resp, 0, "RequestException")
    ELSE IF resp.kind = "garbage" THEN BlockCall("raised", 1, resp, 0, "JSONDecodeError")
    ELSE IF resp.kind = "jsonnull" THEN BlockCall("raised", 1, resp, 0, "AttributeError")
    ELSE IF resp.kind = "status1" THEN BlockCall("returned", 1, resp, resp.block, "")
    ELSE IF resp.kind = "status1_bad" THEN BlockCall("raised", 1, resp, 0, "ValueError")
    ELSE BlockCall("returned", 1, resp, 0, "")
\* get_block_by_date from the request on: one request, then int(result) for
\* status "1" and ValueError otherwise; nothing is caught.
get_block_by_date(resp) ==
    IF resp.kind = "neterr" THEN BlockCall("raised", 1, resp, 0, "RequestException")
    ELSE IF resp.kind = "garbage" THEN BlockCall("raised", 1, resp, 0, "JSONDecodeError")
    ELSE IF resp.kind = "jsonnull" THEN BlockCall("raised", 1, resp, 0, "AttributeError")
    ELSE IF resp.kind = "status1" THEN BlockCall("returned", 1, resp, resp.block, "")
    ELSE IF resp.kind = "status1_bad" THEN BlockCall("raised", 1, resp, 0, "ValueError")
    ELSE BlockCall("raised", 1, resp, 0, "ValueError")

FetchIdle ==
    /\ fn = "none"
    /\ max_retries = 0
    /\ fetch = [FetchStart EXCEPT !.pc = "idle"]
    /\ lastResp = "none"
    /\ lastSleep = NoSleep
    /\ BlockIdle

\* get_block_by_date is called: the date is parsed, which raises ValueError
\* for a string that is no date, before any request.
CallGetBlockByDate ==
    /\ block_call.pc \in {"idle", "returned", "raised"}
    /\ \E is_date \in BOOLEAN :
          block_call' = IF is_date THEN BlockCall("request", 0, NoResponse, 0, "")
                        ELSE BlockCall("raised", 0, NoResponse, 0, "ValueError")
    /\ UNCHANGED <<fn, max_retries, fetch, lastResp, lastSleep>>
    /\ UNCHANGED otherThanFetch

GetBlockByDateStep ==
    /\ block_call.pc = "request"
    /\ \E resp \in BlockResponses : block_call' = get_block_by_date(resp)
    /\ UNCHANGED <<fn, max_retries, fetch, lastResp, lastSleep>>
    /\ UNCHANGED otherThanFetch

FetchEnded == fetch.pc \in {"idle", "returned", "raised"}

CallGetLogsForRange ==
    /\ FetchEnded
    /\ fn' = "logs"
    /\ max_retries' \in 1..MaxRetries
    /\ fetch' = FetchStart
    /\ lastResp' = "none"
    /\ lastSleep' = NoSleep
    /\ UNCHANGED block_call
    /\ UNCHANGED otherThanFetch

CallGetTransactions ==
    /\ FetchEnded
    /\ fn' = "txs"
    /\ max_retries' \in 1..MaxRetries
    /\ fetch' = FetchStart
    /\ lastResp' = "none"
    /\ lastSleep' = NoSleep
    /\ UNCHANGED block_call
    /\ UNCHANGED otherThanFetch

\* Mutant: the attempts of a page are not counted.
GetLogsForRangeStepUncounted ==
    /\ fn = "logs"
    /\ fetch.pc = "request"
    /\ \E resp \in Responses("logs", fetch.page) :
         LET r == GetLogsForRangeAttempt([fetch EXCEPT !.attempt = 0], resp,
                                         FetchRange, max_retries)
         IN  /\ fetch' = r.f
             /\ lastSleep' = r.sleep
             /\ lastResp' = resp.kind
    /\ UNCHANGED <<fn, max_retries>>
    /\ UNCHANGED block_call
    /\ UNCHANGED otherThanFetch
GetLogsForRangeStep ==
    /\ fn = "logs"
    /\ fetch.pc = "request"
    /\ \E resp \in Responses("logs", fetch.page) :
         LET r == GetLogsForRangeAttempt(fetch, resp, FetchRange, max_retries)
         IN  /\ fetch' = r.f
             /\ lastSleep' = r.sleep
             /\ lastResp' = resp.kind
    /\ UNCHANGED <<fn, max_retries>>
    /\ UNCHANGED block_call
    /\ UNCHANGED otherThanFetch

GetTransactionsStep ==
    /\ fn = "txs"
    /\ fetch.pc = "request"
    /\ \E resp \in Responses("txs", fetch.page) :
         LET r == GetTransactionsAttempt(fetch, resp, FetchAddress, max_retries)
         IN  /\ fetch' = r.f
             /\ lastSleep' = r.sleep
             /\ lastResp' = resp.kind
    /\ UNCHANGED <<fn, max_retries>>
    /\ UNCHANGED block_call
    /\ UNCHANGED otherThanFetch

(***************************************************************************)
(* A whole call, as its caller sees it: every result the retry and page    *)
(* loops can end with, for every sequence of responses.                    *)
(***************************************************************************)
\* What a caller gets: the returned list, or the exception; "exhausted" notes
\* that the call ended because a page ran out of retries.
CallResult(f) ==
    [rows |-> f.rows, raised |-> f.pc = "raised", exhausted |-> f.why = "exhausted"]

RECURSIVE GetLogsForRange(_, _, _)
GetLogsForRange(f, q, maxr) ==
    IF f.pc # "request" THEN {CallResult(f)}
    ELSE UNION {GetLogsForRange(g, q, maxr) :
                  g \in {GetLogsForRangeAttempt(f, resp, q, maxr).f :
                           resp \in Responses("logs", f.page)}}

RECURSIVE GetTransactions(_, _, _)
GetTransactions(f, address, maxr) ==
    IF f.pc # "request" THEN {CallResult(f)}
    ELSE UNION {GetTransactions(g, address, maxr) :
                  g \in {GetTransactionsAttempt(f, resp, address, maxr).f :
                           resp \in Responses("txs", f.page)}}

(***************************************************************************)
(* SpecChunk: get_all_logs, one chunk per step.                            *)
(***************************************************************************)
\* Largest block number of a requested interval.
MaxBlock == 4
\* Largest chunk_size.
MaxChunk == 3

Min(a, b) == IF a <= b THEN a ELSE b

\* get_logs_for_range(address, topic0, current_block, chunk_end) as get_all_logs
\* calls it (max_retries left at its default), for each block range.
GetLogsForRangeCall ==
    [q \in (0..MaxBlock) \X (0..MaxBlock) |->
        GetLogsForRange(FetchStart, q, LOGS_MAX_RETRIES)]

\* Mutant: the chunk runs one block too far.
ChunkEndOffByOne(cur, size, to) == Min(cur + size, to)
\* chunk_end = min(current_block + chunk_size - 1, to_block)
ChunkEnd(cur, size, to) == Min(cur + size - 1, to)

ChunkIdle ==
    /\ from_block = 0 /\ to_block = 0 /\ chunk_size = 0
    /\ current_block = 0 /\ chunk_num = 0
    /\ all_logs = <<>> /\ ranges = <<>>
    /\ cpc = "idle"

\* get_all_logs(address, topic0, from_block, to_block, chunk_size) at entry.
ChunkInit ==
    /\ from_block \in 0..MaxBlock
    /\ to_block \in 0..MaxBlock
    /\ chunk_size \in 1..MaxChunk
    /\ current_block = from_block
    /\ chunk_num = 1
    /\ all_logs = <<>>
    /\ ranges = <<>>
    /\ cpc = "loop"

\* One iteration of "while current_block <= to_block".
GetAllLogsChunk ==
    /\ cpc = "loop"
    /\ current_block <= to_block
    /\ LET chunk_end == ChunkEnd(current_block, chunk_size, to_block)
           q == <<current_block, chunk_end>>
       IN  /\ ranges' = Append(ranges, q)
           /\ \E res \in GetLogsForRangeCall[q] :
                IF res.raised
                THEN /\ cpc' = "raised"
                     /\ UNCHANGED <<all_logs, current_block, chunk_num>>
                ELSE /\ all_logs' = all_logs \o res.rows
                     /\ current_block' = chunk_end + 1
                     /\ chunk_num' = chunk_num + 1
                     /\ cpc' = "loop"
    /\ UNCHANGED <<from_block, to_block, chunk_size>>
    /\ UNCHANGED otherThanChunk

\* The loop condition fails: return all_logs.
GetAllLogsReturn ==
    /\ cpc = "loop"
    /\ current_block > to_block
    /\ cpc' = "done"
    /\ UNCHANGED <<from_block, to_block, chunk_size, current_block, chunk_num,
                   all_logs, ranges>>
    /\ UNCHANGED otherThanChunk

(***************************************************************************)
(* SpecExtract: extract_all_wallet_transactions. The executor runs         *)
(* fetch_wallet for each submitted wallet on at most max_workers threads;  *)
(* the caller's thread collects the futures as they complete.              *)
(***************************************************************************)
\* Number of wallets of a run.
MaxWallets == 2
\* Largest checkpoint_every.
MaxCheckpointEvery == 2
\* Largest max_workers.
MaxWorkers == 2

Addresses == {"0xa1", "0xa2"}

\* What output_path holds before the run: nothing, or an earlier run's file.
NoFile    == [exists |-> FALSE, lines |-> <<>>]
StaleFile == [exists |-> TRUE, lines |-> <<<<"0xa9", 1, 1, "0xa9">>>>]

\* pd.DataFrame(all_transactions) written as CSV: one line per record, the
\* record's fields in column order.
ToCsv(records) ==
    [i \in DOMAIN records |->
        <<records[i].q, records[i].page, records[i].idx, records[i].wallet>>]

\* Mutant: the file is opened for appending.
WriteCsvAppending(file, records) ==
    [exists |-> TRUE, lines |-> file.lines \o ToCsv(records)]
\* df.to_csv(output_path, index=False): the file is opened for writing, so
\* whatever it held is replaced.
WriteCsv(file, records) == [exists |-> TRUE, lines |-> ToCsv(records)]

\* Mutant: the cadence is counted from the address before.
ShouldCheckpointOffByOne(n, every, records) ==
    (n - 1) % every = 0 /\ records # <<>>
\* Mutant: a snapshot is due at every other multiple only.
ShouldCheckpointEveryOther(n, every, records) ==
    n % (2 * every) = 0 /\ records # <<>>
\* if processed % checkpoint_every == 0 and all_transactions
ShouldCheckpoint(n, every, records) == n % every = 0 /\ records # <<>>

\* Mutant: the accumulator is assigned, so what it held is lost.
ExtendLosing(acc, txs) == txs
\* all_transactions.extend(txs)
Extend(acc, txs) == acc \o txs

\* if all_transactions (the final save)
ShouldSaveFinal(records) == records # <<>>

\* fetch_wallet(wallet): get_transactions(wallet, start_block, end_block), with
\* max_retries left at its default.
FetchWallet ==
    [w \in Addresses |-> GetTransactions(FetchStart, w, TXS_MAX_RETRIES)]

NoResult == [rows |-> <<>>, raised |-> FALSE, exhausted |-> FALSE]

Running == {i \in DOMAIN futures : futures[i].st = "running"}

ExtractIdle ==
    /\ wallets = <<>> /\ checkpoint_every = 0 /\ max_workers = 0
    /\ futures = <<>>
    /\ all_transactions = <<>> /\ processed = 0 /\ wallets_with_txs = 0
    /\ output_file = NoFile /\ nsaves = 0 /\ lastSave = "none"
    /\ epc = "idle"

\* The run once every wallet is submitted to the executor.
ExtractInit ==
    /\ wallets \in UNION {[1..n -> Addresses] : n \in 0..MaxWallets}
    /\ checkpoint_every \in 1..MaxCheckpointEvery
    /\ max_workers \in 1..MaxWorkers
    /\ futures = [i \in DOMAIN wallets |-> [st |-> "queued", res |-> NoResult]]
    /\ all_transactions = <<>>
    /\ processed = 0
    /\ wallets_with_txs = 0
    /\ output_file \in {NoFile, StaleFile}
    /\ nsaves = 0
    /\ lastSave = "none"
    /\ epc = "collect"

\* Mutant: a thread is started for every work item.
CanStartUnbounded(i) ==
    /\ futures[i].st = "queued"
    /\ \A j \in 1..(i - 1) : futures[j].st # "queued"
\* A free worker thread takes the next work item of the executor's queue.
CanStart(i) ==
    /\ futures[i].st = "queued"
    /\ \A j \in 1..(i - 1) : futures[j].st # "queued"
    /\ Cardinality(Running) < max_workers

WorkerStart(i) ==
    /\ CanStart(i)
    /\ futures' = [futures EXCEPT ![i].st = "running"]
    /\ UNCHANGED <<wallets, checkpoint_every, max_workers, all_transactions,
                   processed, wallets_with_txs, output_file, nsaves, lastSave, epc>>
    /\ UNCHANGED otherThanExtract

\* fetch_wallet(wallet) ends: get_transactions returned or raised.
WorkerFinish(i) ==
    /\ futures[i].st = "running"
    /\ \E res \in FetchWallet[wallets[i]] :
         futures' = [futures EXCEPT ![i] = [st |-> "done", res |-> res]]
    /\ UNCHANGED <<wallets, checkpoint_every, max_workers, all_transactions,
                   processed, wallets_with_txs, output_file, nsaves, lastSave, epc>>
    /\ UNCHANGED otherThanExtract

\* One iteration of "for future in as_completed(futures)" whose
\* future.result() returns.
Collect(i) ==
    /\ epc = "collect"
    /\ futures[i].st = "done"
    /\ ~futures[i].res.raised
    /\ LET txs == futures[i].res.rows
           acc == IF txs # <<>> THEN Extend(all_transactions, txs)
                                ELSE all_transactions
           n   == processed + 1
       IN  /\ processed' = n
           /\ all_transactions' = acc
           /\ wallets_with_txs' = IF txs # <<>> THEN wallets_with_txs + 1
                                                ELSE wallets_with_txs
           /\ IF ShouldCheckpoint(n, checkpoint_every, acc)
              THEN /\ output_file' = WriteCsv(output_file, acc)
                   /\ nsaves' = nsaves + 1
                   /\ lastSave' = "checkpoint"
              ELSE /\ UNCHANGED <<output_file, nsaves>>
                   /\ lastSave' = "none"
    /\ futures' = [futures EXCEPT ![i].st = "collected"]
    /\ UNCHANGED <<wallets, checkpoint_every, max_workers, epc>>
    /\ UNCHANGED otherThanExtract

\* future.result() re-raises what fetch_wallet raised: the loop is left, and
\* the with block waits for the remaining work before the exception goes on.
CollectRaises(i) ==
    /\ epc = "collect"
    /\ futures[i].st = "done"
    /\ futures[i].res.raised
    /\ futures' = [futures EXCEPT ![i].st = "collected"]
    /\ epc' = "raising"
    /\ lastSave' = "none"
    /\ UNCHANGED <<wallets, checkpoint_every, max_workers, all_transactions,
                   processed, wallets_with_txs, output_file, nsaves>>
    /\ UNCHANGED otherThanExtract

\* executor.shutdown(wait=True) is over: the exception leaves the function.
Propagate ==
    /\ epc = "raising"
    /\ \A i \in DOMAIN futures : futures[i].st \notin {"queued", "running"}
    /\ epc' = "raised"
    /\ UNCHANGED <<wallets, checkpoint_every, max_workers, futures,
                   all_transactions, processed, wallets_with_txs, output_file,
                   nsaves, lastSave>>
    /\ UNCHANGED otherThanExtract

\* Every future was collected: the with block ends, then the final save.
FinalSave ==
    /\ epc = "collect"
    /\ \A i \in DOMAIN futures : futures[i].st = "collected"
    /\ IF ShouldSaveFinal(all_transactions)
       THEN /\ output_file' = WriteCsv(output_file, all_transactions)
            /\ nsaves' = nsaves + 1
            /\ lastSave' = "final"
       ELSE /\ UNCHANGED <<output_file, nsaves>>
            /\ lastSave' = "none"
    /\ epc' = "done"
    /\ UNCHANGED <<wallets, checkpoint_every, max_workers, futures,
                   all_transactions, processed, wallets_with_txs>>
    /\ UNCHANGED otherThanExtract

(***************************************************************************)
(* The destination database behind one psycopg2 connection with autocommit *)
(* off: statements change the connection's view (tx); commit publishes the *)
(* view, rollback and close discard what is unpublished.                   *)
(***************************************************************************)
\* Source files of one partition.
MaxFiles == 2
\* Rows of one source file.
MaxRows == 1

\* A table of the raw schema: whether it exists, and its rows.
Absent  == [exists |-> FALSE, rows |-> <<>>]
OldRows == [exists |-> TRUE, rows |-> <<[file |-> <<"earlier_run", 1>>, k |-> 1]>>]
Empty   == [exists |-> TRUE, rows |-> <<>>]

Chains == <<"ethereum", "linea">>

\* table_name = f"{chain}_logs_processed"
RawTableName(chain) ==
    IF chain = "ethereum" THEN "ethereum_logs_processed" ELSE "linea_logs_processed"

ParquetTables     == {RawTableName(Chains[i]) : i \in DOMAIN Chains}
TransformedTables == {"etherscan_logs", "linea_transactions"}

\* The rows a source file holds.
FileRows(file) == [i \in 1..file.rows |-> [file |-> file.name, k |-> i]]

\* CREATE TABLE IF NOT EXISTS raw.<t>
CreateIfNotExists(view, t) == [view EXCEPT ![t] = IF @.exists THEN @ ELSE Empty]
\* DROP TABLE IF EXISTS raw.<t>; CREATE TABLE IF NOT EXISTS raw.<t>
DropAndCreate(view, t) == [view EXCEPT ![t] = Empty]
\* TRUNCATE TABLE raw.<t>
TruncateTable(view, t) == [view EXCEPT ![t].rows = <<>>]
\* Mutant: every batch replaces the table (a truncate per file).
CopyRowsClobbering(view, t, rows) == [view EXCEPT ![t].rows = rows]
\* COPY raw.<t> (...) FROM STDIN: the rows are added to the table.
CopyRows(view, t, rows) == [view EXCEPT ![t].rows = @ \o rows]

Log(h, t, events) == [h EXCEPT ![t] = @ \o events]

LoadIdle ==
    /\ loader = "none" /\ truncate_existing = FALSE
    /\ parts = <<>> /\ db = <<>> /\ tx = <<>>
    /\ ci = 0 /\ fi = 0 /\ lpc = "idle"
    /\ total_inserted = 0 /\ results = <<>> /\ hist = <<>>
    /\ db0 = <<>>
    /\ closes = 0

\* The files of a directory: per partition, each file's number of rows.
FileLists == UNION {[1..n -> 0..MaxRows] : n \in 0..MaxFiles}

Files(key, sizes) ==
    [j \in DOMAIN sizes |-> [name |-> <<key, j>>, rows |-> sizes[j]]]

\* files_by_chain: the chains that have a file, in the order of the sorted
\* file names, each with its files.
FilesByChain(sizes) ==
    SelectSeq([i \in DOMAIN Chains |->
                 [table |-> RawTableName(Chains[i]),
                  files |-> Files(Chains[i], sizes[i])]],
              LAMBDA part : part.files # <<>>)

\* A table that holds what an earlier run loaded from the first file of the
\* chain.
IngestedBefore(chain) ==
    [exists |-> TRUE, rows |-> FileRows([name |-> <<chain, 1>>, rows |-> 1])]

TableStates ==
    {Absent, OldRows} \cup {IngestedBefore(Chains[i]) : i \in DOMAIN Chains}

\* check_table_loaded(conn, table_name, source_file): source_file is a file
\* name or None; file_loaded stays None when the table does not exist or no
\* file name is given.
check_table_loaded(view, t, source_file) ==
    IF ~view[t].exists
    THEN [exists |-> FALSE, row_count |-> 0, file_loaded |-> "None"]
    ELSE [exists |-> TRUE, row_count |-> Len(view[t].rows),
          file_loaded |->
             IF source_file = <<>> THEN "None"
             ELSE IF \E i \in DOMAIN view[t].rows :
                        view[t].rows[i].file = source_file
                  THEN "True" ELSE "False"]

\* load_all_parquet_files_to_raw_tables once the connection is open.
ParquetInit ==
    /\ loader = "parquet"
    /\ truncate_existing = TRUE
    /\ \E sizes \in [DOMAIN Chains -> FileLists] : parts = FilesByChain(sizes)
    /\ db \in [ParquetTables -> TableStates]
    /\ \A i \in DOMAIN Chains :
          db[RawTableName(Chains[i])] \in
              {Absent, OldRows, IngestedBefore(Chains[i])}
    /\ tx = db
    /\ db0 = db
    /\ closes = 0
    /\ ci = 1 /\ fi = 1
    /\ lpc = IF parts = <<>> THEN "done" ELSE "create"
    /\ total_inserted = 0
    /\ results = <<>>
    /\ hist = [t \in ParquetTables |-> <<>>]

\* load_all_transformed_data once the connection is open: transformed_logs.csv
\* and transformed_transactions.csv, each present or not.
TransformedInit ==
    /\ loader = "transformed"
    /\ truncate_existing \in BOOLEAN
    /\ \E logs \in {s \in FileLists : Len(s) <= 1},
          txs  \in {s \in FileLists : Len(s) <= 1} :
         parts = <<[table |-> "etherscan_logs",
                    files |-> Files("transformed_logs", logs)],
                   [table |-> "linea_transactions",
                    files |-> Files("transformed_transactions", txs)]>>
    /\ db \in [TransformedTables -> {Absent, OldRows}]
    /\ tx = db
    /\ db0 = db
    /\ closes = 0
    /\ ci = 1 /\ fi = 1
    /\ lpc = "create_logs"
    /\ total_inserted = 0
    /\ results = [k \in {"bridge_logs", "transactions"} |-> 0]
    /\ hist = [t \in TransformedTables |-> <<>>]

Part  == parts[ci]
Table == parts[ci].table

\* The connection: what is committed, and the connection's own view.
Conn == [db |-> db, tx |-> tx]

Commit(c)   == [db |-> c.tx, tx |-> c.tx]
Rollback(c) == [db |-> c.db, tx |-> c.db]

\* cur.execute(create_sql); conn.commit()
CreateRawTable(c, t) == Commit([c EXCEPT !.tx = CreateIfNotExists(c.tx, t)])

\* cur.execute(TRUNCATE TABLE raw.<t>); conn.commit()
TruncateRawTable(c, t) == Commit([c EXCEPT !.tx = TruncateTable(c.tx, t)])

\* Mutant: the loader of one file leaves the commit to its caller.
LoadParquetToRawCopyUncommitted(c, file, t) ==
    IF file.rows = 0 THEN c
    ELSE [c EXCEPT !.tx = CopyRows(c.tx, t, FileRows(file))]
\* An empty file returns 0 before any statement; otherwise COPY, then
\* conn.commit().
LoadParquetToRawCopy(c, file, t) ==
    IF file.rows = 0 THEN c
    ELSE Commit([c EXCEPT !.tx = CopyRows(c.tx, t, FileRows(file))])

\* The statements a successful load of `file` issues.
LoadEvents(file) == IF file.rows = 0 THEN <<"empty_file">> ELSE <<"copy", "commit">>

SetConn(c) == db' = c.db /\ tx' = c.tx

\* Mutant: the connection is left open.
CloseSkipped(n) == n
\* conn.close(), counted.
Close(n) == n + 1

\* The for loop over files_by_chain goes on to the next chain.
NextChain ==
    /\ ci' = ci + 1
    /\ fi' = 1
    /\ lpc' = "create"

\* Step 1 of a chain: create_raw_table, or rollback and continue.
PqCreateRawTable ==
    /\ loader = "parquet" /\ lpc = "create" /\ ci <= Len(parts)
    /\ \E ok \in BOOLEAN :
         IF ok
         THEN /\ SetConn(CreateRawTable(Conn, Table))
              /\ hist' = Log(hist, Table, <<"ensure", "commit">>)
              /\ lpc' = "truncate"
              /\ UNCHANGED <<ci, fi>>
         ELSE /\ SetConn(Rollback(Conn))
              /\ hist' = Log(hist, Table, <<"ensure_failed", "rollback">>)
              /\ NextChain
    /\ UNCHANGED <<loader, truncate_existing, parts, db0, closes, total_inserted, results>>
    /\ UNCHANGED otherThanLoad

\* Step 2 of a chain: truncate_raw_table, or rollback and continue.
PqTruncateRawTable ==
    /\ loader = "parquet" /\ lpc = "truncate"
    /\ \E ok \in BOOLEAN :
         IF ok
         THEN /\ SetConn(TruncateRawTable(Conn, Table))
              /\ hist' = Log(hist, Table, <<"truncate", "commit">>)
              /\ lpc' = "files"
              /\ fi' = 1
              /\ UNCHANGED ci
         ELSE /\ SetConn(Rollback(Conn))
              /\ hist' = Log(hist, Table, <<"truncate_failed", "rollback">>)
              /\ NextChain
    /\ UNCHANGED <<loader, truncate_existing, parts, db0, closes, total_inserted, results>>
    /\ UNCHANGED otherThanLoad

\* Step 3, one file of the chain: load_parquet_to_raw_copy, or rollback and
\* go on with the next file.
PqLoadFile ==
    /\ loader = "parquet" /\ lpc = "files" /\ fi <= Len(Part.files)
    /\ \E ok \in BOOLEAN :
         IF ok
         THEN /\ SetConn(LoadParquetToRawCopy(Conn, Part.files[fi], Table))
              /\ hist' = Log(hist, Table, LoadEvents(Part.files[fi]))
              /\ total_inserted' = total_inserted + Part.files[fi].rows
         ELSE /\ SetConn(Rollback(Conn))
              /\ hist' = Log(hist, Table, <<"copy_failed", "rollback">>)
              /\ UNCHANGED total_inserted
    /\ fi' = fi + 1
    /\ UNCHANGED <<loader, truncate_existing, parts, db0, closes, ci, lpc, results>>
    /\ UNCHANGED otherThanLoad

\* After the files of the chain: conn.commit().  It is outside every inner
\* try: when it raises, the exception leaves the function through
\* finally: conn.close().
PqCommitChain ==
    /\ loader = "parquet" /\ lpc = "files" /\ fi > Len(Part.files)
    /\ \E ok \in BOOLEAN :
         IF ok
         THEN /\ SetConn(Commit(Conn))
              /\ hist' = Log(hist, Table, <<"chain_commit">>)
              /\ NextChain
              /\ UNCHANGED closes
         ELSE /\ SetConn(Rollback(Conn))
              /\ hist' = Log(hist, Table, <<"chain_commit_failed">>)
              /\ lpc' = "raised"
              /\ closes' = Close(closes)
              /\ UNCHANGED <<ci, fi>>
    /\ UNCHANGED <<loader, truncate_existing, parts, db0, total_inserted, results>>
    /\ UNCHANGED otherThanLoad

\* After the last chain: return total_inserted; finally conn.close().
PqReturn ==
    /\ loader = "parquet" /\ lpc = "create" /\ ci > Len(parts)
    /\ SetConn(Rollback(Conn))
    /\ lpc' = "closed"
    /\ closes' = Close(closes)
    /\ UNCHANGED <<loader, truncate_existing, parts, db0, ci, fi, total_inserted,
                   results, hist>>
    /\ UNCHANGED otherThanLoad

(***************************************************************************)
(* load_all_transformed_data.                                              *)
(***************************************************************************)
\* create_etherscan_logs_table: CREATE ... IF NOT EXISTS; conn.commit()
CreateEtherscanLogsTable(c) ==
    Commit([c EXCEPT !.tx = CreateIfNotExists(c.tx, "etherscan_logs")])

\* create_transactions_table: DROP TABLE IF EXISTS, CREATE; conn.commit()
CreateTransactionsTable(c) ==
    Commit([c EXCEPT !.tx =
              CreateIfNotExists(DropAndCreate(c.tx, "linea_transactions"),
                                "linea_transactions")])

\* truncate_table: TRUNCATE; conn.commit()
TruncateTableCommit(c, t) == Commit([c EXCEPT !.tx = TruncateTable(c.tx, t)])

\* load_etherscan_logs_csv / load_transactions_csv: an empty CSV returns 0
\* before any statement; otherwise COPY, then conn.commit().
LoadCsv(c, file, t) ==
    IF file.rows = 0 THEN c
    ELSE Commit([c EXCEPT !.tx = CopyRows(c.tx, t, FileRows(file))])

\* The key of the results dictionary a loaded dataset is stored under.
ResultKey(t) == IF t = "etherscan_logs" THEN "etherscan_logs" ELSE "transactions"

SetResult(res, key, n) ==
    [k \in DOMAIN res \cup {key} |-> IF k = key THEN n ELSE res[k]]

\* except Exception: conn.rollback(); raise; finally conn.close()
Fatal ==
    /\ SetConn(Rollback(Conn))
    /\ lpc' = "raised"
    /\ closes' = Close(closes)
    /\ UNCHANGED <<ci, fi, results>>

\* After one dataset: the next one, or the summary.
NextDataset ==
    /\ ci' = ci + 1
    /\ fi' = 1
    /\ lpc' = IF ci < Len(parts) THEN "dataset" ELSE "summary"

TfCreateEtherscanLogsTable ==
    /\ loader = "transformed" /\ lpc = "create_logs"
    /\ \E ok \in BOOLEAN :
         IF ok
         THEN /\ SetConn(CreateEtherscanLogsTable(Conn))
              /\ hist' = Log(hist, "etherscan_logs", <<"ensure", "commit">>)
              /\ lpc' = "create_txs"
              /\ UNCHANGED <<ci, fi, results, closes>>
         ELSE /\ Fatal
              /\ hist' = Log(hist, "etherscan_logs", <<"ensure_failed", "rollback">>)
    /\ UNCHANGED <<loader, truncate_existing, parts, db0, total_inserted>>
    /\ UNCHANGED otherThanLoad

TfCreateTransactionsTable ==
    /\ loader = "transformed" /\ lpc = "create_txs"
    /\ \E ok \in BOOLEAN :
         IF ok
         THEN /\ SetConn(CreateTransactionsTable(Conn))
              /\ hist' = Log(hist, "linea_transactions", <<"drop", "ensure", "commit">>)
              /\ lpc' = "dataset"
              /\ UNCHANGED <<ci, fi, results, closes>>
         ELSE /\ Fatal
              /\ hist' = Log(hist, "linea_transactions", <<"ensure_failed", "rollback">>)
    /\ UNCHANGED <<loader, truncate_existing, parts, db0, total_inserted>>
    /\ UNCHANGED otherThanLoad

\* The dataset's file does not exist: a warning, nothing else.
TfFileMissing ==
    /\ loader = "transformed" /\ lpc = "dataset"
    /\ Part.files = <<>>
    /\ NextDataset
    /\ UNCHANGED <<loader, truncate_existing, parts, db0, closes, db, tx, total_inserted,
                   results, hist>>
    /\ UNCHANGED otherThanLoad

\* if truncate_existing: truncate_table(conn, <table>); a failure here is not
\* inside the dataset's try and ends the run.
TfTruncateTable ==
    /\ loader = "transformed" /\ lpc = "dataset"
    /\ Part.files # <<>>
    /\ IF truncate_existing
       THEN \E ok \in BOOLEAN :
              IF ok
              THEN /\ SetConn(TruncateTableCommit(Conn, Table))
                   /\ hist' = Log(hist, Table, <<"truncate", "commit">>)
                   /\ lpc' = "load"
                   /\ UNCHANGED <<ci, fi, results, closes>>
              ELSE /\ Fatal
                   /\ hist' = Log(hist, Table, <<"truncate_failed", "rollback">>)
       ELSE /\ lpc' = "load"
            /\ UNCHANGED <<db, tx, ci, fi, results, hist, closes>>
    /\ UNCHANGED <<loader, truncate_existing, parts, db0, total_inserted>>
    /\ UNCHANGED otherThanLoad

\* try: rows = load_..._csv(conn, file); results[key] = rows
\* except: conn.rollback()
TfLoadCsv ==
    /\ loader = "transformed" /\ lpc = "load"
    /\ \E ok \in BOOLEAN :
         IF ok
         THEN /\ SetConn(LoadCsv(Conn, Part.files[1], Table))
              /\ hist' = Log(hist, Table, LoadEvents(Part.files[1]))
              /\ results' = SetResult(results, ResultKey(Table), Part.files[1].rows)
         ELSE /\ SetConn(Rollback(Conn))
              /\ hist' = Log(hist, Table, <<"copy_failed", "rollback">>)
              /\ UNCHANGED results
    /\ NextDataset
    /\ UNCHANGED <<loader, truncate_existing, parts, db0, closes, total_inserted>>
    /\ UNCHANGED otherThanLoad

\* check_table_status of both tables, return results; finally conn.close()
TfSummary ==
    /\ loader = "transformed" /\ lpc = "summary"
    /\ \E ok \in BOOLEAN :
         IF ok
         THEN /\ SetConn(Rollback(Conn))
              /\ lpc' = "closed"
              /\ closes' = Close(closes)
              /\ UNCHANGED <<ci, fi, results>>
         ELSE Fatal
    /\ UNCHANGED <<loader, truncate_existing, parts, db0, total_inserted, hist>>
    /\ UNCHANGED otherThanLoad

(***************************************************************************)
(* transform_logs.py: Python values and strings.                           *)
(* A value is a record: t is its type, s its characters when it is a       *)
(* string (one character per element), v its number when it is an int.     *)
(* "nan" is a missing value (None or NaN: pd.isna is true of both).        *)
(***************************************************************************)
Nan      == [t |-> "nan",  s |-> <<>>, v |-> 0]
None     == [t |-> "none", s |-> <<>>, v |-> 0]
Str(cs)  == [t |-> "str",  s |-> cs,   v |-> 0]
IntVal(n)   == [t |-> "int",  s |-> <<>>, v |-> n]
Exc(e)   == [t |-> "raise", s |-> <<>>, v |-> 0, e |-> e]

IsRaise(x) == x.t = "raise"

\* pd.isna(x)
IsNa(x) == x.t \in {"nan", "none"}

LowerDigits == <<"0", "1", "2", "3", "4", "5", "6", "7",
                 "8", "9", "a", "b", "c", "d", "e", "f">>
UpperDigits == <<"0", "1", "2", "3", "4", "5", "6", "7",
                 "8", "9", "A", "B", "C", "D", "E", "F">>

IsHexChar(c) == \E i \in 1..16 : LowerDigits[i] = c \/ UpperDigits[i] = c

DigitValue(c) ==
    (CHOOSE i \in 1..16 : LowerDigits[i] = c \/ UpperDigits[i] = c) - 1

Max(a, b) == IF a >= b THEN a ELSE b

\* s[a:b] for 0 <= a, 0 <= b: the slice is cut at the end of the string.
Slice(cs, a, b) == SubSeq(cs, a + 1, Min(b, Len(cs)))

\* s[a:] for 0 <= a
SliceFrom(cs, a) == SubSeq(cs, a + 1, Len(cs))

\* s[-n:] for n > 0: the last n characters, or all of a shorter string.
LastChars(cs, n) == SubSeq(cs, Max(1, Len(cs) - n + 1), Len(cs))

\* The number a string of hex digits denotes, most significant digit first.
RECURSIVE HexValue(_)
HexValue(cs) ==
    IF cs = <<>> THEN 0
    ELSE HexValue(SubSeq(cs, 1, Len(cs) - 1)) * 16 + DigitValue(cs[Len(cs)])

\* int(s, 16) on a string of hex digits, "x", "X" and other letters: an
\* optional "0x"/"0X" prefix, then at least one hex digit and nothing else;
\* anything else is a ValueError.
PyInt16(cs) ==
    LET body == IF Len(cs) >= 2 /\ cs[1] = "0" /\ cs[2] \in {"x", "X"}
                THEN SliceFrom(cs, 2) ELSE cs
    IN  IF body = <<>> \/ \E i \in DOMAIN body : ~IsHexChar(body[i])
        THEN Exc("ValueError")
        ELSE IntVal(HexValue(body))

\* hex_to_int(hex_str)
hex_to_int(x) ==
    IF IsNa(x) \/ x = Str(<<"0", "x">>) THEN IntVal(0)
    ELSE PyInt16(x.s)

\* Mutant: the address is cut from the front of the word.
HexToAddressFromFront(x) ==
    IF IsNa(x) THEN None
    ELSE Str(<<"0", "x">> \o Slice(x.s, 0, ADDRESS_CHARS))
\* hex_to_address(hex_str)
hex_to_address(x) ==
    IF IsNa(x) THEN None
    ELSE Str(<<"0", "x">> \o LastChars(x.s, ADDRESS_CHARS))

\* parse_topics(topics_str): the column holds the repr of a list of strings,
\* which ast.literal_eval reads back; a missing value gives [].
ListRepr(items) == [t |-> "listrepr", s |-> <<>>, v |-> 0, items |-> items]

parse_topics(x) == IF IsNa(x) THEN <<>> ELSE x.items

Tuple3(a, b, c) == [t |-> "tuple", fee |-> a, value |-> b, nonce |-> c]

\* Mutant: the second and third slots are taken in the wrong order.
DecodeDataSlotsSwapped(x) ==
    IF IsNa(x) \/ Len(x.s) < DATA_MIN_CHARS THEN Tuple3(None, None, None)
    ELSE LET data  == SliceFrom(x.s, 2)
             fee   == PyInt16(Slice(data, 0, 64))
             value == PyInt16(Slice(data, 128, 192))
             nonce == PyInt16(Slice(data, 64, 128))
         IN  IF IsRaise(fee) THEN fee
             ELSE IF IsRaise(value) THEN value
             ELSE IF IsRaise(nonce) THEN nonce
             ELSE Tuple3(fee, value, nonce)
\* decode_data(data_hex): the three int() calls run in order and the first
\* that raises ends the call.
decode_data(x) ==
    IF IsNa(x) \/ Len(x.s) < DATA_MIN_CHARS THEN Tuple3(None, None, None)
    ELSE LET data  == SliceFrom(x.s, 2)
             fee   == PyInt16(Slice(data, 0, 64))
             value == PyInt16(Slice(data, 64, 128))
             nonce == PyInt16(Slice(data, 128, 192))
         IN  IF IsRaise(fee) THEN fee
             ELSE IF IsRaise(value) THEN value
             ELSE IF IsRaise(nonce) THEN nonce
             ELSE Tuple3(fee, value, nonce)

\* An int too large to write out: v * 10^x.  IntVal(n) is the case x = 0.
Pow10Int(m, x) == [t |-> "int", s |-> <<>>, v |-> m, x |-> x]

\* The power of ten an int value carries.
Exp10(n) == IF "x" \in DOMAIN n THEN n.x ELSE 0

\* A float that is an exact decimal, v * 10^x with v not a multiple of ten
\* (0.0 is v = 0, x = 0), so that equal numbers are equal values.
RECURSIVE Float(_, _)
Float(m, x) ==
    IF m = 0 THEN [t |-> "float", s |-> <<>>, v |-> 0, x |-> 0]
    ELSE IF m % 10 = 0 THEN Float(m \div 10, x + 1)
    ELSE [t |-> "float", s |-> <<>>, v |-> m, x |-> x]

\* An int written out in decimal digits, most significant first.
BigInt(ds) == [t |-> "int", s |-> <<>>, v |-> 0, digits |-> ds]

RECURSIVE DigitsOfNat(_)
DigitsOfNat(n) ==
    IF n < 10 THEN <<n>> ELSE Append(DigitsOfNat(n \div 10), n % 10)

RECURSIVE NatOfDigits(_)
NatOfDigits(ds) ==
    IF ds = <<>> THEN 0
    ELSE NatOfDigits(SubSeq(ds, 1, Len(ds) - 1)) * 10 + ds[Len(ds)]

IsZero(ds) == \A i \in DOMAIN ds : ds[i] = 0

RECURSIVE StripLeading(_)
StripLeading(ds) ==
    IF Len(ds) > 1 /\ ds[1] = 0 THEN StripLeading(Tail(ds)) ELSE ds

\* The decimal digits of a non-negative int value.
Digits(n) ==
    IF "digits" \in DOMAIN n THEN n.digits
    ELSE StripLeading(DigitsOfNat(n.v) \o [i \in 1..Exp10(n) |-> 0])

\* ds % c and ds // c on decimal digits, for a small c.
RECURSIVE RemOf(_, _)
RemOf(ds, c) ==
    IF ds = <<>> THEN 0
    ELSE (RemOf(SubSeq(ds, 1, Len(ds) - 1), c) * 10 + ds[Len(ds)]) % c

QuotOf(ds, c) ==
    StripLeading([i \in 1..Len(ds) |->
                    (RemOf(SubSeq(ds, 1, i - 1), c) * 10 + ds[i]) \div c])

\* ds * c + a on decimal digits, for small c and a.
RECURSIVE TimesPlus(_, _, _)
TimesPlus(ds, c, a) ==
    IF ds = <<>> THEN (IF a = 0 THEN <<>> ELSE DigitsOfNat(a))
    ELSE LET v == ds[Len(ds)] * c + a
         IN  Append(TimesPlus(SubSeq(ds, 1, Len(ds) - 1), c, v \div 10), v % 10)

\* The base-16 digits of a number, most significant first, and back.
RECURSIVE ToBase16(_)
ToBase16(ds) ==
    IF IsZero(ds) THEN <<>>
    ELSE Append(ToBase16(QuotOf(ds, 16)), RemOf(ds, 16))

RECURSIVE FromBase16(_)
FromBase16(hs) ==
    IF hs = <<>> THEN <<0>>
    ELSE TimesPlus(FromBase16(SubSeq(hs, 1, Len(hs) - 1)), 16, hs[Len(hs)])

\* The binary digits of a number, most significant first, and back: four
\* bits to a base-16 digit.
ToBits(ds) ==
    LET hs   == ToBase16(ds)
        raw  == [i \in 1..(4 * Len(hs)) |->
                   (hs[((i - 1) \div 4) + 1] \div (2 ^ (3 - ((i - 1) % 4)))) % 2]
        ones == {i \in DOMAIN raw : raw[i] = 1}
    IN  IF ones = {} THEN <<>>
        ELSE SubSeq(raw, CHOOSE i \in ones : \A j \in ones : i <= j, Len(raw))

FromBits(bits) ==
    LET pad == (4 - (Len(bits) % 4)) % 4
        b   == [i \in 1..pad |-> 0] \o bits
    IN  FromBase16([j \in 1..(Len(b) \div 4) |->
                      8 * b[4 * j - 3] + 4 * b[4 * j - 2]
                        + 2 * b[4 * j - 1] + b[4 * j]])

\* bits + 1
Increment(bits) ==
    IF \A i \in DOMAIN bits : bits[i] = 1
    THEN <<1>> \o [i \in DOMAIN bits |-> 0]
    ELSE LET j == CHOOSE k \in DOMAIN bits :
                     bits[k] = 0 /\ \A i \in (k + 1)..Len(bits) : bits[i] = 1
         IN  [i \in DOMAIN bits |-> IF i < j THEN bits[i]
                                     ELSE IF i = j THEN 1 ELSE 0]

\* A number rounded to p significant bits, ties to even.
RoundToBits(bits, p) ==
    IF Len(bits) <= p THEN bits
    ELSE LET keep   == SubSeq(bits, 1, p)
             sticky == \E i \in (p + 2)..Len(bits) : bits[i] = 1
             up     == bits[p + 1] = 1 /\ (sticky \/ keep[p] = 1)
         IN  (IF up THEN Increment(keep) ELSE keep)
             \o [i \in 1..(Len(bits) - p) |-> 0]

\* float(n) of a non-negative int below 2^1024: the nearest double, as the
\* integer it is.
DoubleOf(ds) == FromBits(RoundToBits(ToBits(ds), MANTISSA_BITS))

\* The float of the digits ds times 10^x.  The mantissa is kept in digits
\* when it does not fit a machine integer of the checker.
DecFloat(ds, x) ==
    LET zeros == Cardinality({n \in 1..Len(ds) :
                                \A i \in (Len(ds) - n + 1)..Len(ds) : ds[i] = 0})
        core  == SubSeq(ds, 1, Len(ds) - zeros)
    IN  IF IsZero(ds) THEN Float(0, 0)
        ELSE IF Len(core) <= 9 THEN Float(NatOfDigits(core), x + zeros)
        ELSE [t |-> "float", s |-> <<>>, v |-> 0, x |-> x + zeros,
              digits |-> core]

\* int / 10^d in floats: the int is converted to the nearest double, which
\* is then divided.  The quotient is kept as the exact decimal of that
\* double over 10^d: the rounding of the division itself, which can only
\* merge further values, is left out.
TrueDiv(n, d) == DecFloat(DoubleOf(Digits(n)), 0 - d)

\* Mutant: a missing amount is turned into 0.0.
WeiToEthNoneAsZero(wei) ==
    IF wei = None THEN Float(0, 0)
    ELSE TrueDiv(wei, ETH_DECIMALS)
\* wei_to_eth(wei): None for None, wei / 1e18 otherwise.
wei_to_eth(wei) ==
    IF wei = None THEN None
    ELSE TrueDiv(wei, ETH_DECIMALS)

\* pd.to_datetime(timestamp, unit="s", utc=True)
ToDatetime(ts) == [t |-> "datetime", s |-> <<>>, v |-> ts.v]

\* Mutant: the topic is indexed without looking at the length of the list.
TopicAtUnguarded(topics, i) ==
    IF Len(topics) > i THEN topics[i + 1] ELSE Exc("IndexError")
\* x[i] if len(x) > i else None
TopicAt(topics, i) == IF Len(topics) > i THEN topics[i + 1] ELSE None

\* hex_to_address(x[i]) if len(x) > i else None
AddressAt(topics, i) ==
    LET x == TopicAt(topics, i)
    IN  IF x = None \/ IsRaise(x) THEN x ELSE hex_to_address(x)

\* The columns parse_logs computes for one row of the frame.
ParsedRow(row) ==
    LET topics_list == parse_topics(row.topics)
        decoded     == decode_data(row.data)
        timestamp   == hex_to_int(row.timeStamp)
    IN  [tx_hash      |-> row.transactionHash,
         block_number |-> hex_to_int(row.blockNumber),
         timestamp    |-> timestamp,
         datetime     |-> IF IsRaise(timestamp) THEN timestamp
                          ELSE ToDatetime(timestamp),
         from_address |-> AddressAt(topics_list, 1),
         to_address   |-> AddressAt(topics_list, 2),
         message_hash |-> TopicAt(topics_list, 3),
         value_eth    |-> IF IsRaise(decoded) THEN decoded
                          ELSE wei_to_eth(decoded.value),
         fee_eth      |-> IF IsRaise(decoded) THEN decoded
                          ELSE wei_to_eth(decoded.fee),
         nonce        |-> IF IsRaise(decoded) THEN decoded ELSE decoded.nonce,
         gas_price    |-> hex_to_int(row.gasPrice),
         gas_used     |-> hex_to_int(row.gasUsed),
         log_index    |-> hex_to_int(row.logIndex),
         tx_index     |-> hex_to_int(row.transactionIndex)]

\* The order in which parse_logs computes the columns.
ColumnOrder ==
    <<"from_address", "to_address", "message_hash", "nonce", "fee_eth",
      "value_eth", "block_number", "timestamp", "datetime", "gas_price",
      "gas_used", "log_index", "tx_index">>

\* parse_logs(df): every column is computed by an apply over all rows, so an
\* exception in any cell ends the call and no frame is returned.
parse_logs(df) ==
    LET rows   == [i \in DOMAIN df |-> ParsedRow(df[i])]
        raises == {<<c, i>> \in (DOMAIN ColumnOrder) \X (DOMAIN df) :
                     IsRaise(rows[i][ColumnOrder[c]])}
    IN  IF raises = {} THEN [t |-> "frame", rows |-> rows]
        ELSE LET first == CHOOSE p \in raises :
                            \A q \in raises :
                                p[1] < q[1] \/ (p[1] = q[1] /\ p[2] <= q[2])
             IN  rows[first[2]][ColumnOrder[first[1]]]

(***************************************************************************)
(* SpecTransform: calls of the functions of transform_logs.py, of          *)
(* transform_transactions.py and of the two reconcilers, one call per      *)
(* step, on inputs drawn from bounded sets.                                *)
(***************************************************************************)
\* Hex digits of the largest fee, value and nonce that are encoded.
MaxValueDigits == 2
\* Further words after the three decoded ones (calldata offset, length).
MaxExtraWords == 2
\* Hex digits after "0x" of the numbers given to hex_to_int.
MaxHexDigits == 3
\* Rows of a frame given to parse_logs.
MaxLogs == 2
MaxWei == 12

Zeros(n) == [i \in 1..n |-> "0"]

RECURSIVE ToHex(_)
ToHex(n) ==
    IF n < 16 THEN <<LowerDigits[n + 1]>>
    ELSE ToHex(n \div 16) \o <<LowerDigits[(n % 16) + 1]>>

\* format(n, '064x'): lower-case hex, padded with zeros to 64 characters.
Format064x(n) == Zeros(WORD_CHARS - Len(ToHex(n))) \o ToHex(n)

Values == {0, 7, 16 ^ (MaxValueDigits - 1), (16 ^ MaxValueDigits) - 1}

\* "0x" + fee + value + nonce words, then `extra` further words.
EncodeData(fee, value, nonce, extra) ==
    Str(<<"0", "x">> \o Format064x(fee) \o Format064x(value)
        \o Format064x(nonce) \o Zeros(extra * WORD_CHARS))

EncodedPayloads ==
    {EncodeData(f, w, n, e) : f \in Values, w \in Values, n \in Values,
                              e \in 0..MaxExtraWords}

\* One payload cut at every length, from "" and "0x" up to the whole of it.
SamplePayload == EncodeData(7, (16 ^ MaxValueDigits) - 1, 1, 1).s

CutPayloads ==
    {Str(SubSeq(SamplePayload, 1, n)) : n \in 0..Len(SamplePayload)}

DecodeDataInputs == {Nan} \cup EncodedPayloads \cup CutPayloads

RECURSIVE DigitStrings(_)
DigitStrings(n) ==
    IF n = 0 THEN {<<>>}
    ELSE {d \o <<c>> : d \in DigitStrings(n - 1), c \in {"0", "1", "4", "f", "F"}}

HexToIntInputs ==
    {Nan, Str(<<>>)}
    \cup {Str(<<"0", "x">> \o d) :
            d \in UNION {DigitStrings(n) : n \in 0..MaxHexDigits}}

AddressChars == {"0", "9", "a", "A", "f", "F"}

\* 40 hex characters: a first and a last character around a fixed middle.
SampleAddress(h, l) == <<h>> \o [i \in 1..(ADDRESS_CHARS - 2) |-> "5"] \o <<l>>

\* A 32-byte topic word holding an address: 24 zeros, then the address.
PaddedTopic(a) == Str(<<"0", "x">> \o Zeros(WORD_CHARS - ADDRESS_CHARS) \o a)

HexToAddressInputs ==
    {Nan} \cup
    {PaddedTopic(SampleAddress(h, l)) : h \in AddressChars, l \in AddressChars}

\* topics = [signature, pad(from), pad(to), message hash], and its prefixes.
SampleTopics ==
    <<Str(<<"0", "x">> \o [i \in 1..WORD_CHARS |-> "e"]),
      PaddedTopic(SampleAddress("a", "A")),
      PaddedTopic(SampleAddress("F", "9")),
      Str(<<"0", "x">> \o [i \in 1..WORD_CHARS |-> "c"])>>

TopicsInputs ==
    {Nan} \cup {ListRepr(SubSeq(SampleTopics, 1, k)) : k \in 0..Len(SampleTopics)}

RawLogs ==
    {[topics           |-> tp,
      data             |-> d,
      blockNumber      |-> h,
      timeStamp        |-> Str(<<"0", "x", "1", "f", "4">>),
      gasPrice         |-> Str(<<"0", "x", "f">>),
      gasUsed          |-> Str(<<"0", "x", "1", "0">>),
      logIndex         |-> Str(<<"0", "x">>),
      transactionIndex |-> Str(<<"0", "x", "0">>),
      transactionHash  |-> Str(<<"0", "x", "a", "b">>)] :
        tp \in TopicsInputs,
        d  \in {Nan, EncodeData(0, 7, 1, 2),
                Str(SubSeq(SamplePayload, 1, DATA_MIN_CHARS))},
        h  \in {Str(<<"0", "x", "1", "f", "4">>), Str(<<>>)}}

ParseLogsInputs == UNION {[1..n -> RawLogs] : n \in 0..MaxLogs}

(***************************************************************************)
(* transform_transactions.py: the normaliser of the transactions.          *)
(***************************************************************************)
UpperLetters == <<"A", "B", "C", "D", "E", "F", "I", "N", "T", "X", "Y">>
LowerLetters == <<"a", "b", "c", "d", "e", "f", "i", "n", "t", "x", "y">>

\* s.lower()
LowerChar(c) ==
    IF \E i \in DOMAIN UpperLetters : UpperLetters[i] = c
    THEN LowerLetters[CHOOSE i \in DOMAIN UpperLetters : UpperLetters[i] = c]
    ELSE c

Lower(cs) == [i \in DOMAIN cs |-> LowerChar(cs[i])]

\* s.strip()
RECURSIVE LStrip(_)
LStrip(cs) ==
    IF cs # <<>> /\ cs[1] = " " THEN LStrip(Tail(cs)) ELSE cs

RECURSIVE RStrip(_)
RStrip(cs) ==
    IF cs # <<>> /\ cs[Len(cs)] = " "
    THEN RStrip(SubSeq(cs, 1, Len(cs) - 1)) ELSE cs

Strip(cs) == RStrip(LStrip(cs))

IsDecDigit(c) == \E i \in 1..10 : LowerDigits[i] = c

\* The number a string of decimal digits denotes.
RECURSIVE DecValue(_)
DecValue(cs) ==
    IF cs = <<>> THEN 0
    ELSE DecValue(SubSeq(cs, 1, Len(cs) - 1)) * 10 + DigitValue(cs[Len(cs)])

\* A decimal literal without sign or exponent: digits with at most one
\* point and at least one digit.
IsDecimal(cs) ==
    /\ \A i \in DOMAIN cs : IsDecDigit(cs[i]) \/ cs[i] = "."
    /\ Cardinality({i \in DOMAIN cs : cs[i] = "."}) <= 1
    /\ \E i \in DOMAIN cs : IsDecDigit(cs[i])

\* The digits before the point.
IntPart(cs) ==
    IF \E i \in DOMAIN cs : cs[i] = "."
    THEN SubSeq(cs, 1, (CHOOSE i \in DOMAIN cs : cs[i] = ".") - 1)
    ELSE cs

\* int(float(s)) on a stripped string of digits, points and letters:
\* float() reads a decimal literal, "inf", "infinity" and "nan" in any letter
\* case and raises ValueError for the rest; int() truncates a finite float,
\* raises OverflowError for an infinity and ValueError for a NaN.
PyIntOfFloat(cs) ==
    IF Lower(cs) \in {<<"i", "n", "f">>,
                      <<"i", "n", "f", "i", "n", "i", "t", "y">>}
    THEN Exc("OverflowError")
    ELSE IF Lower(cs) = <<"n", "a", "n">> THEN Exc("ValueError")
    ELSE IF IsDecimal(cs) THEN IntVal(DecValue(IntPart(cs)))
    ELSE Exc("ValueError")

\* str_val.lower().startswith("0x")
StartsWith0x(cs) ==
    Len(cs) >= 2 /\ Lower(cs)[1] = "0" /\ Lower(cs)[2] = "x"

\* hex_to_int(hex_str) of transform_transactions.py: only ValueError and
\* TypeError are caught.
txs_hex_to_int(x) ==
    IF IsNa(x) THEN IntVal(0)
    ELSE LET str_val == Strip(x.s)
             r == IF StartsWith0x(str_val) THEN PyInt16(str_val)
                  ELSE PyIntOfFloat(str_val)
         IN  IF str_val = <<"0", "x">> \/ str_val = <<>> THEN IntVal(0)
             ELSE IF IsRaise(r) /\ r.e \in {"ValueError", "TypeError"}
                  THEN IntVal(0)
             ELSE r

\* wei_to_eth(wei_val) of transform_transactions.py
txs_wei_to_eth(wei_val) ==
    IF IsNa(wei_val) THEN Float(0, 0)
    ELSE TrueDiv(wei_val, ETH_DECIMALS)

\* wei_to_gwei(wei_val)
wei_to_gwei(wei_val) ==
    IF IsNa(wei_val) THEN Float(0, 0)
    ELSE TrueDiv(wei_val, GWEI_DECIMALS)

NaT == [t |-> "nat", s |-> <<>>, v |-> 0]

\* convert_timestamp(ts): int(ts) on a string of an optional sign-less
\* decimal integer, NaT when int() raises ValueError or TypeError.
convert_timestamp(ts) ==
    IF IsNa(ts) THEN NaT
    ELSE IF Strip(ts.s) # <<>> /\ \A i \in DOMAIN Strip(ts.s) :
                                      IsDecDigit(Strip(ts.s)[i])
         THEN ToDatetime(IntVal(DecValue(Strip(ts.s))))
         ELSE NaT

\* df.drop_duplicates(subset=["hash"]): the first row of every hash is kept,
\* in the order of the frame.
RECURSIVE DropDuplicates(_)
DropDuplicates(rows) ==
    IF rows = <<>> THEN <<>>
    ELSE LET init == DropDuplicates(SubSeq(rows, 1, Len(rows) - 1))
             last == rows[Len(rows)]
         IN  IF \E i \in DOMAIN init : init[i].hash = last.hash THEN init
             ELSE Append(init, last)

\* The columns of one row that transform_transactions computes and keeps.
TxsRow(row) ==
    [datetime       |-> convert_timestamp(row.timeStamp),
     value_eth      |-> IF IsRaise(txs_hex_to_int(row.value))
                        THEN txs_hex_to_int(row.value)
                        ELSE txs_wei_to_eth(txs_hex_to_int(row.value)),
     gas_price_gwei |-> IF IsRaise(txs_hex_to_int(row.gasPrice))
                        THEN txs_hex_to_int(row.gasPrice)
                        ELSE wei_to_gwei(txs_hex_to_int(row.gasPrice)),
     block_number   |-> txs_hex_to_int(row.blockNumber),
     nonce_int      |-> txs_hex_to_int(row.nonce),
     gas_used_int   |-> txs_hex_to_int(row.gasUsed),
     hash           |-> row.hash,
     from           |-> row.from,
     to             |-> row.to]

\* The order in which the columns are computed.
TxsColumnOrder ==
    <<"datetime", "value_eth", "gas_price_gwei", "block_number",
      "nonce_int", "gas_used_int">>

\* transform_transactions(df): duplicates are dropped and the count of the
\* dropped rows is printed when there are any; then every column is computed
\* by an apply over all rows, so an exception in any cell ends the call and
\* no frame is returned.
transform_transactions(df) ==
    LET initial_count == Len(df)
        kept    == DropDuplicates(df)
        removed == IF Len(kept) < initial_count
                   THEN IntVal(initial_count - Len(kept)) ELSE None
        rows    == [i \in DOMAIN kept |-> TxsRow(kept[i])]
        raises  == {<<c, i>> \in (DOMAIN TxsColumnOrder) \X (DOMAIN kept) :
                      IsRaise(rows[i][TxsColumnOrder[c]])}
    IN  IF raises = {}
        THEN [t |-> "frame", rows |-> rows, removed |-> removed]
        ELSE LET first == CHOOSE p \in raises :
                            \A q \in raises :
                                p[1] < q[1] \/ (p[1] = q[1] /\ p[2] <= q[2])
             IN  [t |-> "raise", s |-> <<>>, v |-> 0,
                  e |-> rows[first[2]][TxsColumnOrder[first[1]]].e,
                  removed |-> removed]

\* Characters of the values given to the numeric parse.
TxsAlphabet == {"0", "1", "a", "f", "i", "n", "x", "X", " ", "."}
\* Characters of the longest value given to the numeric parse.
MaxTxsChars == 3
\* Rows of a frame given to transform_transactions.
MaxTxs == 3

TxsStrings == UNION {[1..n -> TxsAlphabet] : n \in 0..MaxTxsChars}

TxsHexToIntInputs == {Nan, None} \cup {Str(cs) : cs \in TxsStrings}

TxHashes == {Str(<<"h", "1">>), Str(<<"h", "2">>)}

TxValues == {Str(<<"1", "0">>), Str(<<"0", "x", "f">>), Str(<<"i", "n", "f">>)}

\* Raw transactions: the hash and the value vary, the other columns are those
\* of one sample transaction.
RawTxs ==
    {[hash |-> h, value |-> val,
      timeStamp |-> Str(<<"1", "7">>), gasPrice |-> Str(<<"7">>),
      blockNumber |-> Str(<<"2", "1">>), nonce |-> Str(<<"3">>),
      gasUsed |-> Str(<<"2", "1">>),
      from |-> Str(<<"0", "x", "a">>), to |-> Str(<<"0", "x", "b">>)] :
        h \in TxHashes, val \in TxValues}

TransformTransactionsInputs == UNION {[1..n -> RawTxs] : n \in 0..MaxTxs}

(***************************************************************************)
(* validate_transformed_logs.py and validate_transformed_transactions.py:  *)
(* the reconcilers.  A call returns its verdict; the model keeps with it   *)
(* the list of errors it built, the checks it printed as failed and        *)
(* whether it printed the warning of the block range.                      *)
(***************************************************************************)
\* series.isnull()
IsNull(x) == IsNa(x)

\* (series < 0) on one cell: a missing value compares false.
IsNegative(x) == ~IsNa(x) /\ x.v < 0

\* frame.duplicated(subset=...).sum(): the rows whose key an earlier row has.
DuplicatedCount(keys) == Len(keys) - Cardinality({keys[i] : i \in DOMAIN keys})

\* The cells of one column.
Column(rows, col) == [i \in DOMAIN rows |-> rows[i][col]]

NullCount(rows, col) == Cardinality({i \in DOMAIN rows : IsNull(rows[i][col])})

NegativeCount(rows, col) ==
    Cardinality({i \in DOMAIN rows : IsNegative(rows[i][col])})

\* min_block >= lo and max_block <= hi: min() and max() skip the missing
\* values and are NaN, which compares false, when nothing is left.
BlockRangeValid(rows, lo, hi) ==
    LET blocks == {rows[i].block_number.v :
                     i \in {j \in DOMAIN rows : ~IsNull(rows[j].block_number)}}
    IN  /\ blocks # {}
        /\ \A b \in blocks : b >= lo /\ b <= hi

\* The names of the checks of a list that failed, in the order of the list.
RECURSIVE Failed(_)
Failed(checks) ==
    IF checks = <<>> THEN <<>>
    ELSE IF Head(checks).failed THEN <<Head(checks).name>> \o Failed(Tail(checks))
    ELSE Failed(Tail(checks))

Verdict(errors, crosses, warned) ==
    [t |-> "verdict", s |-> <<>>, v |-> 0,
     ok |-> errors = <<>>, errors |-> errors,
     crosses |-> crosses, warned |-> warned]

\* The checks of validate_logs that append to errors, in program order.
LogsChecks(df_raw, df_parsed) ==
    <<[name |-> "row_count", failed |-> Len(df_raw) # Len(df_parsed)],
      [name |-> "duplicates",
       failed |-> DuplicatedCount([i \in DOMAIN df_parsed |->
                     <<df_parsed[i].tx_hash, df_parsed[i].log_index>>]) # 0],
      [name |-> "tx_hash", failed |-> NullCount(df_parsed, "tx_hash") # 0],
      [name |-> "block_number",
       failed |-> NullCount(df_parsed, "block_number") # 0],
      [name |-> "from_address",
       failed |-> NullCount(df_parsed, "from_address") # 0],
      [name |-> "value_eth", failed |-> NullCount(df_parsed, "value_eth") # 0],
      [name |-> "negative_values",
       failed |-> NegativeCount(df_parsed, "value_eth") # 0]>>

\* Mutant: a block outside the expected range is an error too.
ValidateLogsRangeIsError(df_raw, df_parsed) ==
    LET range == [name |-> "block_range",
                  failed |-> ~BlockRangeValid(df_parsed, LOGS_MIN_BLOCK,
                                              LOGS_MAX_BLOCK)]
        errors == Failed(Append(LogsChecks(df_raw, df_parsed), range))
    IN  Verdict(errors, errors, FALSE)
\* validate_logs(df_raw, df_parsed): every failed check is appended to errors
\* and printed with a cross; the block range only prints a warning.
validate_logs(df_raw, df_parsed) ==
    LET errors == Failed(LogsChecks(df_raw, df_parsed))
    IN  Verdict(errors, errors,
                ~BlockRangeValid(df_parsed, LOGS_MIN_BLOCK, LOGS_MAX_BLOCK))

\* The row count check of validate_transactions: a difference that the
\* duplicated hashes of the raw frame explain is printed as a warning.
TxsRowCountFails(df_raw, df_parsed) ==
    /\ Len(df_raw) # Len(df_parsed.rows)
    /\ Len(df_raw) - DuplicatedCount(Column(df_raw, "hash"))
          # Len(df_parsed.rows)

\* The check of one critical column of validate_transactions.
TxsCriticalFails(df_parsed, col) ==
    \/ col \notin df_parsed.cols
    \/ NullCount(df_parsed.rows, col) # 0

\* The checks of validate_transactions in program order, appended says
\* whether a failure of the check is appended to errors.
TxsChecks(df_raw, df_parsed) ==
    <<[name |-> "row_count", appended |-> TRUE,
       failed |-> TxsRowCountFails(df_raw, df_parsed)],
      [name |-> "duplicates", appended |-> FALSE,
       failed |-> DuplicatedCount(Column(df_parsed.rows, "hash")) # 0],
      [name |-> "hash", appended |-> TRUE,
       failed |-> TxsCriticalFails(df_parsed, "hash")],
      [name |-> "block_number", appended |-> TRUE,
       failed |-> TxsCriticalFails(df_parsed, "block_number")],
      [name |-> "from", appended |-> TRUE,
       failed |-> TxsCriticalFails(df_parsed, "from")],
      [name |-> "value_eth", appended |-> TRUE,
       failed |-> TxsCriticalFails(df_parsed, "value_eth")],
      [name |-> "negative_values", appended |-> TRUE,
       failed |-> /\ "value_eth" \in df_parsed.cols
                  /\ NegativeCount(df_parsed.rows, "value_eth") # 0],
      [name |-> "negative_gas", appended |-> TRUE,
       failed |-> /\ "gas_price_gwei" \in df_parsed.cols
                  /\ NegativeCount(df_parsed.rows, "gas_price_gwei") # 0]>>

\* validate_transactions(df_raw, df_parsed): the duplicate hashes are printed
\* with a cross and not appended to errors.
validate_transactions(df_raw, df_parsed) ==
    LET checks == TxsChecks(df_raw, df_parsed)
    IN  Verdict(Failed(SelectSeq(checks, LAMBDA c : c.appended)),
                Failed(checks),
                /\ "block_number" \in df_parsed.cols
                /\ ~BlockRangeValid(df_parsed.rows, TXS_MIN_BLOCK,
                                    TXS_MAX_BLOCK))

\* Rows of a frame given to a reconciler.
MaxParsed == 2

Address == Str(<<"0", "x", "a">>)

\* Decoded logs: each critical column with and without a null, equal and
\* different keys, a negative and a positive amount, and a block below and
\* inside the expected range.
ParsedLogs ==
    [tx_hash      : {Str(<<"h", "1">>), Nan},
     log_index    : {IntVal(0), IntVal(1)},
     block_number : {Nan, IntVal(LOGS_MIN_BLOCK - 1), IntVal(LOGS_MIN_BLOCK)},
     from_address : {Address, Nan},
     value_eth    : {Nan, Float(0 - 1, 0), Float(1, 0)}]

\* The raw frame of validate_logs is read for its length only.
RawLogFrames == UNION {[1..n -> {Nan}] : n \in 0..MaxParsed}

ValidateLogsInputs ==
    RawLogFrames \X UNION {[1..n -> ParsedLogs] : n \in 0..MaxParsed}

\* Normalised transactions, with and without the column value_eth.
ParsedTxs ==
    [hash           : {Str(<<"h", "1">>), Nan},
     block_number   : {Nan, IntVal(5)},
     from           : {Address},
     value_eth      : {Nan, Float(0 - 1, 0), Float(1, 0)},
     gas_price_gwei : {Float(0 - 1, 0), Float(1, 0)}]

TxsColumns == {"hash", "block_number", "from", "value_eth", "gas_price_gwei"}

ParsedTxFrames ==
    [cols : {TxsColumns, TxsColumns \ {"value_eth"}},
     rows : UNION {[1..n -> ParsedTxs] : n \in 0..MaxParsed}]

\* The raw frame of validate_transactions is read for its length and the
\* hashes.
RawTxFrames == UNION {[1..n -> [hash : TxHashes]] : n \in 0..MaxParsed}

ValidateTransactionsInputs == RawTxFrames \X ParsedTxFrames

(***************************************************************************)
(* The columns of a batch that the loaders hand to COPY.  A column that    *)
(* COPY is not given takes its default, which is NULL for the data         *)
(* columns; a NULL in a NOT NULL column (a column of the primary key is    *)
(* one) fails the statement.                                               *)
(***************************************************************************)
\* Columns a batch may lack at once.
MaxMissing == 2

\* load_etherscan_logs_csv: the columns list, and the columns that
\* create_etherscan_logs_table declares NOT NULL or puts in the primary key.
LogsCsvColumns ==
    <<"tx_hash", "block_number", "timestamp", "datetime", "from_address",
      "to_address", "message_hash", "value_eth", "fee_eth", "nonce",
      "gas_price", "gas_used", "log_index", "tx_index">>
LogsRequired ==
    {"tx_hash", "block_number", "timestamp", "datetime", "from_address",
     "value_eth", "log_index"}

\* load_transactions_csv: the columns list of the CSV, and the columns that
\* create_transactions_table declares NOT NULL or PRIMARY KEY.
TxsCsvColumns ==
    <<"datetime", "block_number", "hash", "from", "to", "value_eth",
      "gas_price_gwei", "gas_used_int", "nonce_int", "is_error", "tx_status",
      "methodId", "functionName">>
TxsRequired == {"datetime", "block_number", "hash", "from_address"}

\* column_mapping.get(col, col)
column_mapping(col) ==
    IF col = "from" THEN "from_address"
    ELSE IF col = "to" THEN "to_address"
    ELSE IF col = "methodId" THEN "method_id"
    ELSE IF col = "functionName" THEN "function_name"
    ELSE col

\* The column list of load_parquet_to_raw_copy and the NOT NULL columns of
\* its table are parameters: two data columns, each required or not, and
\* source_file, which the loader adds itself.
ParquetCopyColumns == <<"col_a", "col_b", "source_file">>

ElementsOf(seq) == {seq[i] : i \in DOMAIN seq}

\* Mutant: every column of the list is selected, present or not (a KeyError
\* for a column the frame lacks).
AvailableColsAll(columns, present) == columns
\* available_cols = [col for col in columns if col in df.columns]
AvailableCols(columns, present) == SelectSeq(columns, LAMBDA c : c \in present)

\* COPY raw.<table> (listed) FROM STDIN: every table column gets the batch's
\* value when it is listed with one, NULL otherwise; the statement fails when
\* a required column is NULL.  nulled are the listed columns the batch has
\* only NULL for.
CopyStatement(table_cols, required, listed, nulled) ==
    IF \E c \in required : c \notin listed \/ c \in nulled
    THEN Exc("NotNullViolation")
    ELSE [t |-> "copied", s |-> <<>>, v |-> 0,
          row |-> [c \in table_cols |->
                     IF c \in listed /\ c \notin nulled THEN "value" ELSE "NULL"]]

\* The column handling of the three loaders for a batch that has the columns
\* `present`.
CopyBatch(loader_fn, required, present) ==
    IF loader_fn = "load_etherscan_logs_csv"
    THEN LET available_cols == AvailableCols(LogsCsvColumns, present)
         IN  IF ElementsOf(available_cols) \subseteq present
             THEN CopyStatement(ElementsOf(LogsCsvColumns), LogsRequired,
                                ElementsOf(available_cols), {})
             ELSE Exc("KeyError")
    ELSE IF loader_fn = "load_transactions_csv"
    THEN LET available_cols == AvailableCols(TxsCsvColumns, present)
             final_cols == {column_mapping(available_cols[i]) :
                              i \in DOMAIN available_cols}
         IN  IF ElementsOf(available_cols) \subseteq present
             THEN CopyStatement({column_mapping(TxsCsvColumns[i]) :
                                   i \in DOMAIN TxsCsvColumns},
                                TxsRequired, final_cols, {})
             ELSE Exc("KeyError")
    ELSE \* load_parquet_to_raw_copy: a missing column is added as a NULL
         \* literal and all columns are listed.
         CopyStatement(ElementsOf(ParquetCopyColumns), required,
                       ElementsOf(ParquetCopyColumns),
                       ElementsOf(ParquetCopyColumns)
                          \ (present \cup {"source_file"}))

\* The columns of a list without at most MaxMissing of them.
Lacking(columns) ==
    {ElementsOf(columns) \ m :
        m \in {x \in SUBSET ElementsOf(columns) : Cardinality(x) <= MaxMissing}}

CopyBatchInputs ==
    {[fn |-> "load_etherscan_logs_csv", required |-> LogsRequired,
      present |-> p] : p \in Lacking(LogsCsvColumns)}
    \cup {[fn |-> "load_transactions_csv", required |-> TxsRequired,
           present |-> p] : p \in Lacking(TxsCsvColumns)}
    \cup {[fn |-> "load_parquet_to_raw_copy", required |-> r, present |-> p] :
            r \in SUBSET {"col_a", "col_b"}, p \in SUBSET {"col_a", "col_b"}}

\* Amounts of wei with many significant digits: one ether and one wei,
\* 2^53 + 1 wei and 2^53 + 3 wei.
BigWeiInputs ==
    {BigInt(<<1, 0, 0, 0, 0, 0, 0, 0, 0, 0, 0, 0, 0, 0, 0, 0, 0, 0, 1>>),
     BigInt(<<9, 0, 0, 7, 1, 9, 9, 2, 5, 4, 7, 4, 0, 9, 9, 3>>),
     BigInt(<<9, 0, 0, 7, 1, 9, 9, 2, 5, 4, 7, 4, 0, 9, 9, 5>>)}

\* Amounts of wei: none, nothing, a few wei, and fractions and multiples of
\* one ether.
WeiInputs ==
    {None}
    \cup {IntVal(n) : n \in 0..MaxWei}
    \cup {Pow10Int(m, x) : m \in 1..MaxWei, x \in (ETH_DECIMALS - 2)..(ETH_DECIMALS + 1)}
    \cup BigWeiInputs

\* No call has returned yet.
Pending == [t |-> "pending", s |-> <<>>, v |-> 0]

TransformIdle ==
    /\ tfn = "none"
    /\ targ = Nan
    /\ tres = Pending

\* A call of one of the functions, about to run on one of the inputs.
TransformCalls ==
    ({"hex_to_int"} \X HexToIntInputs)
    \cup ({"hex_to_address"} \X HexToAddressInputs)
    \cup ({"decode_data"} \X DecodeDataInputs)
    \cup ({"parse_logs"} \X ParseLogsInputs)
    \cup ({"wei_to_eth"} \X WeiInputs)
    \cup ({"txs_hex_to_int"} \X TxsHexToIntInputs)
    \cup ({"transform_transactions"} \X TransformTransactionsInputs)
    \cup ({"validate_logs"} \X ValidateLogsInputs)
    \cup ({"validate_transactions"} \X ValidateTransactionsInputs)
    \cup ({"copy_batch"} \X CopyBatchInputs)
    \cup ({"txs_wei_to_eth", "wei_to_gwei"} \X ((WeiInputs \ {None}) \cup {Nan}))

TransformStart ==
    /\ \E c \in TransformCalls :
          /\ tfn = c[1]
          /\ targ = c[2]
    /\ tres = Pending

CallTxsWeiToEth ==
    /\ tfn = "txs_wei_to_eth"
    /\ tres = Pending
    /\ tres' = txs_wei_to_eth(targ)
    /\ UNCHANGED <<tfn, targ>>
    /\ UNCHANGED otherThanTransform

CallWeiToGwei ==
    /\ tfn = "wei_to_gwei"
    /\ tres = Pending
    /\ tres' = wei_to_gwei(targ)
    /\ UNCHANGED <<tfn, targ>>
    /\ UNCHANGED otherThanTransform

CallCopyBatch ==
    /\ tfn = "copy_batch"
    /\ tres = Pending
    /\ tres' = CopyBatch(targ.fn, targ.required, targ.present)
    /\ UNCHANGED <<tfn, targ>>
    /\ UNCHANGED otherThanTransform

CallValidateLogs ==
    /\ tfn = "validate_logs"
    /\ tres = Pending
    /\ tres' = validate_logs(targ[1], targ[2])
    /\ UNCHANGED <<tfn, targ>>
    /\ UNCHANGED otherThanTransform

CallValidateTransactions ==
    /\ tfn = "validate_transactions"
    /\ tres = Pending
    /\ tres' = validate_transactions(targ[1], targ[2])
    /\ UNCHANGED <<tfn, targ>>
    /\ UNCHANGED otherThanTransform

CallTxsHexToInt ==
    /\ tfn = "txs_hex_to_int"
    /\ tres = Pending
    /\ tres' = txs_hex_to_int(targ)
    /\ UNCHANGED <<tfn, targ>>
    /\ UNCHANGED otherThanTransform

CallTransformTransactions ==
    /\ tfn = "transform_transactions"
    /\ tres = Pending
    /\ tres' = transform_transactions(targ)
    /\ UNCHANGED <<tfn, targ>>
    /\ UNCHANGED otherThanTransform

CallHexToInt ==
    /\ tfn = "hex_to_int"
    /\ tres = Pending
    /\ tres' = hex_to_int(targ)
    /\ UNCHANGED <<tfn, targ>>
    /\ UNCHANGED otherThanTransform

CallHexToAddress ==
    /\ tfn = "hex_to_address"
    /\ tres = Pending
    /\ tres' = hex_to_address(targ)
    /\ UNCHANGED <<tfn, targ>>
    /\ UNCHANGED otherThanTransform

CallWeiToEth ==
    /\ tfn = "wei_to_eth"
    /\ tres = Pending
    /\ tres' = wei_to_eth(targ)
    /\ UNCHANGED <<tfn, targ>>
    /\ UNCHANGED otherThanTransform

CallDecodeData ==
    /\ tfn = "decode_data"
    /\ tres = Pending
    /\ tres' = decode_data(targ)
    /\ UNCHANGED <<tfn, targ>>
    /\ UNCHANGED otherThanTransform

CallParseLogs ==
    /\ tfn = "parse_logs"
    /\ tres = Pending
    /\ tres' = parse_logs(targ)
    /\ UNCHANGED <<tfn, targ>>
    /\ UNCHANGED otherThanTransform

(***************************************************************************)
(* Specifications.                                                         *)
(***************************************************************************)
FetchInit ==
    FetchIdle /\ ChunkIdle /\ ExtractIdle /\ LoadIdle /\ TransformIdle

FetchNext ==
    \/ CallGetLogsForRange
    \/ CallGetTransactions
    \/ GetLogsForRangeStep
    \/ GetTransactionsStep
    \/ CallGetBlockByDate
    \/ GetBlockByDateStep

SpecFetch == FetchInit /\ [][FetchNext]_vars

ChunkSpecInit ==
    FetchIdle /\ ChunkInit /\ ExtractIdle /\ LoadIdle /\ TransformIdle

ChunkNext ==
    \/ GetAllLogsChunk
    \/ GetAllLogsReturn

SpecChunk == ChunkSpecInit /\ [][ChunkNext]_vars

ExtractSpecInit ==
    FetchIdle /\ ChunkIdle /\ ExtractInit /\ LoadIdle /\ TransformIdle

ExtractNext ==
    \/ \E i \in DOMAIN futures : WorkerStart(i)
    \/ \E i \in DOMAIN futures : WorkerFinish(i)
    \/ \E i \in DOMAIN futures : Collect(i)
    \/ \E i \in DOMAIN futures : CollectRaises(i)
    \/ Propagate
    \/ FinalSave

SpecExtract == ExtractSpecInit /\ [][ExtractNext]_vars

LoadInit ==
    /\ FetchIdle /\ ChunkIdle /\ ExtractIdle /\ TransformIdle
    /\ (ParquetInit \/ TransformedInit)

LoadNext ==
    \/ PqCreateRawTable
    \/ PqTruncateRawTable
    \/ PqLoadFile
    \/ PqCommitChain
    \/ PqReturn
    \/ TfCreateEtherscanLogsTable
    \/ TfCreateTransactionsTable
    \/ TfFileMissing
    \/ TfTruncateTable
    \/ TfLoadCsv
    \/ TfSummary

SpecLoad == LoadInit /\ [][LoadNext]_vars

TransformInit ==
    FetchIdle /\ ChunkIdle /\ ExtractIdle /\ LoadIdle /\ TransformStart

TransformNext ==
    \/ CallHexToInt
    \/ CallHexToAddress
    \/ CallDecodeData
    \/ CallParseLogs
    \/ CallWeiToEth
    \/ CallTxsHexToInt
    \/ CallTransformTransactions
    \/ CallValidateLogs
    \/ CallValidateTransactions
    \/ CallCopyBatch
    \/ CallTxsWeiToEth
    \/ CallWeiToGwei

SpecTransform == TransformInit /\ [][TransformNext]_vars

(***************************************************************************)
(* SpecTerminate: the fetchers under fair scheduling.  Either a fetcher is *)
(* called on its own, over and over, or get_all_logs runs.  Each program   *)
(* is one thread; an attempt ends because the request carries a timeout    *)
(* (timeout=30) and every sleep is finite, so a loop that can take its     *)
(* next step does take it.                                                 *)
(***************************************************************************)
TerminateInit ==
    /\ FetchIdle /\ ExtractIdle /\ LoadIdle /\ TransformIdle
    /\ (ChunkIdle \/ ChunkInit)

\* The fetchers are called directly when get_all_logs is not the program run.
DirectCallGetLogsForRange == cpc = "idle" /\ CallGetLogsForRange

DirectCallGetTransactions == cpc = "idle" /\ CallGetTransactions

TerminateNext ==
    \/ DirectCallGetLogsForRange
    \/ DirectCallGetTransactions
    \/ GetLogsForRangeStep
    \/ GetTransactionsStep
    \/ GetAllLogsChunk
    \/ GetAllLogsReturn

SpecTerminate ==
    /\ TerminateInit /\ [][TerminateNext]_vars
    /\ WF_vars(GetLogsForRangeStep)
    /\ WF_vars(GetTransactionsStep)
    /\ WF_vars(GetAllLogsChunk)
    /\ WF_vars(GetAllLogsReturn)

\* The whole of the model: any one of the programs.
Init == FetchInit \/ ChunkSpecInit \/ ExtractSpecInit \/ LoadInit
Next == FetchNext \/ ChunkNext \/ ExtractNext \/ LoadNext \/ TransformNext
Spec == Init /\ [][Next]_vars

(***************************************************************************)
(* Properties of the loaders (SpecLoad).                                   *)
(***************************************************************************)
Events(h) == {h[i] : i \in DOMAIN h}
Count(h, e) == Cardinality({i \in DOMAIN h : h[i] = e})
Positions(h, e) == {i \in DOMAIN h : h[i] = e}

\* The rows of a table that this run's files brought.
RunRows(table) == SelectSeq(table.rows, LAMBDA r : r.file # <<"earlier_run", 1>>)

RECURSIVE AllFileRows(_)
AllFileRows(files) ==
    IF files = <<>> THEN <<>> ELSE FileRows(Head(files)) \o AllFileRows(Tail(files))

RunOver == lpc \in {"closed", "raised", "done"}

\* The partitions whose processing is over.
PartDone(i) == RunOver \/ i < ci

\* Files of the partition in progress are still to be loaded.
FilesRemain == lpc = "files" /\ fi <= Len(Part.files)

\* C1: in load_all_parquet_files_to_raw_tables a partition is one transaction:
\* while batches of it remain, none of its rows is committed; the commit that
\* ends the chain is issued only if every batch succeeded; and once a batch
\* has failed, the committed table holds none of the partition's rows.
C1_PartitionIsOneTransaction ==
    loader = "parquet" =>
        /\ FilesRemain => RunRows(db[Table]) = <<>>
        /\ \A t \in DOMAIN hist :
              "copy_failed" \in Events(hist[t]) =>
                    /\ "chain_commit" \notin Events(hist[t])
                    /\ RunRows(db[t]) = <<>>

\* C2: after a run in which a batch of a partition failed, the partition's
\* table holds none of the rows of the partition's batches, and a partition
\* whose statements all succeeded holds the rows of all its files.
C2_FailedPartitionLeftEmpty ==
    RunOver =>
        \A i \in DOMAIN parts :
            LET h == hist[parts[i].table]
            IN  /\ "copy_failed" \in Events(h) => RunRows(db[parts[i].table]) = <<>>
                /\ (/\ Events(h) \cap {"copy_failed", "ensure_failed",
                                         "truncate_failed"} = {}
                    /\ Events(h) \cap {"copy", "empty_file"} # {})
                   => RunRows(db[parts[i].table]) = AllFileRows(parts[i].files)

\* The truncate discipline of one table, given that the run truncates:
\* at most one TRUNCATE, issued after the table was ensured, and every COPY
\* after it.
TruncatedOnceBeforeAppends(h) ==
    /\ Count(h, "truncate") <= 1
    /\ \A i \in Positions(h, "truncate") :
          /\ \E j \in Positions(h, "ensure") : j < i
          /\ \A j \in Positions(h, "copy") : i < j
    /\ Positions(h, "copy") # {} => Count(h, "truncate") = 1

\* Every statement of the run succeeded.
FullySuccessful ==
    /\ lpc = "closed"
    /\ \A t \in DOMAIN hist :
          Events(hist[t]) \cap {"copy_failed", "ensure_failed", "truncate_failed"} = {}

\* After a fully successful run a table holds the rows of all files of its
\* partition; this is the whole table when the run truncated it.
HoldsAllFiles(truncated) ==
    FullySuccessful =>
        \A i \in DOMAIN parts :
            (parts[i].files # <<>>) =>
                /\ RunRows(db[parts[i].table]) = AllFileRows(parts[i].files)
                /\ truncated => db[parts[i].table].rows = AllFileRows(parts[i].files)

\* C3 as stated: in every load run, each table is truncated exactly once, after
\* table-ensure and before its first append, never again; after a fully
\* successful run it holds the rows of all files of the partition.
C3_TruncatedOnceInEveryRun ==
    /\ \A t \in DOMAIN hist : TruncatedOnceBeforeAppends(hist[t])
    /\ HoldsAllFiles(TRUE)

\* C3 amended: the discipline holds in load_all_parquet_files_to_raw_tables and
\* in load_all_transformed_data with truncate_existing; without
\* truncate_existing no table is truncated at all, and the rows of the files
\* are added to what the table held.
C3_TruncatedOnceWhenRefreshing ==
    /\ (loader = "parquet" \/ truncate_existing) =>
            \A t \in DOMAIN hist : TruncatedOnceBeforeAppends(hist[t])
    /\ (loader = "transformed" /\ ~truncate_existing) =>
            \A t \in DOMAIN hist : Count(hist[t], "truncate") = 0
    /\ HoldsAllFiles(loader = "parquet" \/ truncate_existing)

\* A fully successful parquet run that appended two files to one table.
C3_Witness ==
    /\ loader = "parquet"
    /\ FullySuccessful
    /\ \E i \in DOMAIN parts :
          /\ Count(hist[parts[i].table], "copy") = 2
          /\ Count(hist[parts[i].table], "truncate") = 1
          /\ Len(db[parts[i].table].rows) = 2

(***************************************************************************)
(* Properties of a paginated query (SpecFetch).                            *)
(***************************************************************************)
\* The step is an attempt of the retry loop (a call starts only when the
\* previous call has ended).
AttemptStep == fetch.pc = "request" /\ fetch' # fetch

\* The rows of the full pages 1..n of query q, wallet-tagged for "txs".
RECURSIVE FullPages(_, _, _)
FullPages(f, q, n) ==
    IF n = 0 THEN <<>>
    ELSE FullPages(f, q, n - 1) \o
         [i \in 1..PageSize |->
            [q |-> q, page |-> n, idx |-> i,
             wallet |-> IF f = "txs" THEN q ELSE NoTag]]

Query == IF fn = "txs" THEN FetchAddress ELSE FetchRange

\* C4: every transient failure of a page request (non-200 status, empty body,
\* malformed payload, network error) is retried: attempt k < max_retries is
\* followed by a wait of k times the delay and another attempt of the same
\* page; the last attempt is followed by no wait; at most max_retries attempts
\* are made per page; and the attempt counter restarts with every page and
\* every call.
C4_TransientFailuresRetried ==
    /\ [](fetch.pc = "request" => fetch.attempt < max_retries)
    /\ [][AttemptStep /\ lastResp' \in FailureKinds =>
            IF fetch.attempt + 1 < max_retries
            THEN /\ fetch' = [fetch EXCEPT !.attempt = fetch.attempt + 1]
                 /\ lastSleep' = [kind |-> "retry",
                                  ms |-> (fetch.attempt + 1) * RETRY_DELAY * 1000]
            ELSE /\ fetch'.pc # "request"
                 /\ lastSleep' = NoSleep]_vars
    /\ [][fetch'.pc = "request" /\ (fetch.pc # "request" \/ fetch'.page # fetch.page)
            => fetch'.attempt = 0]_vars

\* C5: a call never ends with an exception, whatever the responses; and a call
\* that ends because a page ran out of retries returns the rows of the pages
\* fetched before that page.
C5_NoFetchFailurePropagates ==
    /\ fetch.pc # "raised"
    /\ (fetch.pc = "returned" /\ fetch.why = "exhausted") =>
            fetch.rows = FullPages(fn, Query, fetch.page - 1)

(***************************************************************************)
(* Properties of get_all_logs (SpecChunk).                                 *)
(***************************************************************************)
RangeLen(r) == r[2] - r[1] + 1

\* ceil(n / d) for n >= 0, d > 0
CeilDiv(n, d) == (n + d - 1) \div d

\* C6: for from_block <= to_block and chunk_size > 0 the requested ranges are
\* ascending, contiguous and non-overlapping, start at from_block, each has
\* at most chunk_size blocks and only the last may have fewer; when
\* get_all_logs returns they end at to_block (so they cover the interval
\* exactly once) and their number is ceil((to - from + 1) / chunk_size).
C6_RangesCoverInterval ==
    from_block <= to_block =>
        /\ ranges # <<>> => ranges[1][1] = from_block
        /\ \A i \in DOMAIN ranges :
              /\ ranges[i][1] <= ranges[i][2]
              /\ ranges[i][2] <= to_block
              /\ RangeLen(ranges[i]) <= chunk_size
              /\ i < Len(ranges) =>
                    /\ RangeLen(ranges[i]) = chunk_size
                    /\ ranges[i + 1][1] = ranges[i][2] + 1
        /\ cpc = "done" =>
              /\ ranges # <<>>
              /\ ranges[Len(ranges)][2] = to_block
              /\ Len(ranges) = CeilDiv(to_block - from_block + 1, chunk_size)

\* A returned call of several chunks whose last chunk is shorter.
C6_Witness ==
    /\ cpc = "done"
    /\ Len(ranges) >= 2
    /\ RangeLen(ranges[Len(ranges)]) < chunk_size

(***************************************************************************)
(* Properties of extract_all_wallet_transactions (SpecExtract).            *)
(***************************************************************************)
Range(seq) == {seq[i] : i \in DOMAIN seq}

IsPrefix(a, b) == Len(a) <= Len(b) /\ SubSeq(b, 1, Len(a)) = a

\* The step collects future i (future.result() returned or raised).
Collects(i) == futures[i].st = "done" /\ futures'[i].st = "collected"

\* The step is an iteration of the as_completed loop that went through.
Completes == processed' = processed + 1

\* The step leaves the with block and reaches the final save.
Finishes == epc = "collect" /\ epc' = "done"

Saves == nsaves' = nsaves + 1

\* C7 as stated: a snapshot is written each time the number of completed
\* addresses reaches a multiple of checkpoint_every, and one is written when
\* all addresses have completed, whatever the accumulated result set holds.
C7_SnapshotAtEveryCadence ==
    [][/\ (Completes /\ processed' % checkpoint_every = 0) => Saves
       /\ Finishes => Saves]_vars

\* C7 amended: a snapshot is written exactly when the number of completed
\* addresses reaches a multiple of checkpoint_every and the accumulated result
\* set is not empty, and at the end exactly when it is not empty; otherwise
\* the step leaves the file as it was.
C7_SnapshotWhenNotEmpty ==
    [][/\ Completes =>
            (Saves <=> (processed' % checkpoint_every = 0 /\ all_transactions' # <<>>))
       /\ Finishes => (Saves <=> all_transactions # <<>>)
       /\ nsaves' \in {nsaves, nsaves + 1}
       /\ ~Saves => output_file' = output_file
       /\ Saves => (Completes \/ Finishes)]_vars

\* A checkpoint was written at the second of two completed addresses, and
\* the run ended with the final save.
C7_Witness ==
    /\ checkpoint_every = 2
    /\ processed = 2
    /\ nsaves = 2
    /\ lastSave = "final"

\* C8: every snapshot write replaces the file: right after a checkpoint or the
\* final save the file holds exactly the records accumulated so far, and they
\* extend the records of the snapshot written before.
C8_SnapshotOverwrites ==
    [][Saves =>
          /\ output_file'.exists
          /\ output_file'.lines = ToCsv(all_transactions')
          /\ nsaves > 0 => IsPrefix(output_file.lines, output_file'.lines)]_vars

\* A second snapshot, larger than the first, over an earlier run's file.
C8_Witness ==
    /\ nsaves = 2
    /\ checkpoint_every = 1
    /\ Len(output_file.lines) > PageSize
    /\ output_file.lines = ToCsv(all_transactions)
    /\ StaleFile.lines[1] \notin Range(output_file.lines)

\* C9 as stated: an address whose fetch ran out of retries contributes no
\* records, and the loop goes on.
C9_ExhaustedAddressIsEmpty ==
    [][\A i \in DOMAIN futures :
          (Collects(i) /\ futures[i].res.exhausted) =>
              /\ all_transactions' = all_transactions
              /\ epc' = "collect"]_vars

\* C9 amended: an address whose fetch ran out of retries contributes the rows
\* of the pages fetched before the failing page (none when it was the first
\* page); collecting it raises nothing and counts it as completed, and a run
\* that reaches its end has collected every address and holds the rows of each.
C9_ExhaustedAddressIsPartial ==
    /\ [][\A i \in DOMAIN futures :
            (Collects(i) /\ futures[i].res.exhausted) =>
                /\ futures[i].res.rows \in
                      {FullPages("txs", wallets[i], n) : n \in 0..MaxPages}
                /\ all_transactions' = all_transactions \o futures[i].res.rows
                /\ processed' = processed + 1
                /\ epc' = "collect"]_vars
    /\ [](epc = "done" =>
            \A i \in DOMAIN futures :
                /\ futures[i].st = "collected"
                /\ Range(futures[i].res.rows) \subseteq Range(all_transactions))

\* A finished run in which one address ran out of retries after a full page
\* and another address was fetched to its last page.
C9_Witness ==
    /\ epc = "done"
    /\ \E i, j \in DOMAIN futures :
          /\ futures[i].res.exhausted
          /\ Len(futures[i].res.rows) = PageSize
          /\ ~futures[j].res.exhausted
          /\ futures[j].res.rows # <<>>
          /\ wallets[i] # wallets[j]

\* C10: every record of the aggregate, and every line of a snapshot of the
\* run, carries as wallet the address whose query returned it, which is one of
\* the wallets of the run.
C10_RecordsTaggedWithOrigin ==
    /\ \A r \in Range(all_transactions) :
          r.wallet = r.q /\ r.q \in Range(wallets)
    /\ nsaves > 0 =>
          \A line \in Range(output_file.lines) :
              line[4] = line[1] /\ line[1] \in Range(wallets)

\* The snapshot of a finished run holds records of two different wallets.
C10_Witness ==
    /\ epc = "done"
    /\ nsaves > 0
    /\ \E a, b \in Range(output_file.lines) : a[4] # b[4]

\* C11: at every moment the number of fetch_wallet calls in flight is at most
\* max_workers, whatever the number of wallets submitted.
C11_InFlightAtMostMaxWorkers ==
    Cardinality(Running) <= max_workers

\* The pool is full while a submitted wallet still waits in the queue.
C11_Witness ==
    /\ Cardinality(Running) = max_workers
    /\ \E i \in DOMAIN futures : futures[i].st = "queued"

\* Futures whose result the as_completed loop has taken.
Taken == {i \in DOMAIN futures :
            futures[i].st = "collected" /\ ~futures[i].res.raised}

RECURSIVE SumRows(_)
SumRows(S) ==
    IF S = {} THEN 0
    ELSE LET i == CHOOSE x \in S : TRUE
         IN  Len(futures[i].res.rows) + SumRows(S \ {i})

\* C12: the accumulator and the completed-count change only in a step that
\* takes the result of exactly one completed address; that step extends the
\* accumulator by that address's rows and adds one to the count, and no step
\* of a worker touches either. So the count equals the number of results
\* taken and the accumulator holds every row of every result taken.
C12_UpdatesAreExclusive ==
    /\ [][(all_transactions' # all_transactions \/ processed' # processed) =>
            \E i \in DOMAIN futures :
                /\ Collects(i)
                /\ \A j \in DOMAIN futures \ {i} : futures'[j] = futures[j]
                /\ processed' = processed + 1
                /\ all_transactions' = all_transactions \o futures[i].res.rows]_vars
    /\ [](/\ processed = Cardinality(Taken)
          /\ Len(all_transactions) = SumRows(Taken))

\* One result with rows has been taken while a second result with rows is
\* ready and two workers were allowed.
C12_Witness ==
    /\ max_workers = 2
    /\ processed = 1
    /\ all_transactions # <<>>
    /\ \E i \in DOMAIN futures :
          futures[i].st = "done" /\ futures[i].res.rows # <<>>

\* The records of the snapshot this run has written (none before the first).
Snapshot == IF nsaves > 0 THEN output_file.lines ELSE <<>>

\* The accumulated records that are not in the snapshot.
Unsaved ==
    SubSeq(ToCsv(all_transactions), Len(Snapshot) + 1, Len(all_transactions))

RECURSIVE RowsOf(_)
RowsOf(order) ==
    IF order = <<>> THEN <<>>
    ELSE futures[Head(order)].res.rows \o RowsOf(Tail(order))

\* Sequences of n different futures whose result was taken.
TakenOrders(n) ==
    {o \in [1..n -> Taken] : \A a, b \in 1..n : a # b => o[a] # o[b]}

C14_NoRecordsEndsNormally ==
    [][(AttemptStep /\ lastResp' = "norecords") =>
          /\ fetch' = [fetch EXCEPT !.pc = "returned", !.why = "norecords"]
          /\ fetch'.rows = FullPages(fn, Query, fetch.page - 1)
          /\ lastSleep' = NoSleep]_vars

\* "No records" answered the request for the page after a full page.
C14_Witness ==
    /\ lastResp = "norecords"
    /\ fetch.pc = "returned"
    /\ fetch.page = 2
    /\ Len(fetch.rows) = PageSize

\* C15: a page of fewer rows than the page size is the last one: its rows
\* are added after the rows of the earlier pages, the call returns, and no
\* further page is requested (no wait, page counter unchanged).
C15_ShortPageIsLast ==
    [][(AttemptStep /\ lastResp' = "page"
          /\ Len(fetch'.rows) - Len(fetch.rows) < PageSize) =>
          /\ fetch'.pc = "returned"
          /\ fetch'.page = fetch.page
          /\ lastSleep' = NoSleep
          /\ Len(fetch'.rows) > Len(fetch.rows)
          /\ SubSeq(fetch'.rows, 1, Len(fetch.rows)) = fetch.rows
          /\ \A i \in (Len(fetch.rows) + 1)..Len(fetch'.rows) :
                /\ fetch'.rows[i].page = fetch.page
                /\ fetch'.rows[i].idx = i - Len(fetch.rows)]_vars

\* A call returned after a full page and a short second page.
C15_Witness ==
    /\ lastResp = "page"
    /\ fetch.pc = "returned"
    /\ fetch.page = 2
    /\ Len(fetch.rows) > PageSize
    /\ Len(fetch.rows) < 2 * PageSize

(***************************************************************************)
(* Properties of transform_logs.py (SpecTransform).                        *)
(***************************************************************************)
\* The function named has returned or raised.
Called(f) == tfn = f /\ tres # Pending

EncodedAs ==
    [q \in Values \X Values \X Values \X (0..MaxExtraWords) |->
        EncodeData(q[1], q[2], q[3], q[4])]

\* C16: decode_data of "0x" followed by fee, value and nonce, each encoded as
\* one 64-character big-endian hex word, and then by any further words,
\* returns exactly (fee, value, nonce).
C16_DecodeRoundTrip ==
    Called("decode_data") =>
        \A q \in DOMAIN EncodedAs :
            targ = EncodedAs[q] =>
                tres = Tuple3(IntVal(q[1]), IntVal(q[2]), IntVal(q[3]))

\* Three different values, the largest of them first, and two further
\* words, decoded.
C16_Witness ==
    /\ Called("decode_data")
    /\ targ = EncodeData((16 ^ MaxValueDigits) - 1, 16 ^ (MaxValueDigits - 1), 7,
                         MaxExtraWords)
    /\ tres = Tuple3(IntVal((16 ^ MaxValueDigits) - 1),
                     IntVal(16 ^ (MaxValueDigits - 1)), IntVal(7))

\* C17: decode_data raises for no payload, whatever its length, and a missing
\* payload or one of fewer than 130 characters gives (None, None, None).
C17_DecodeNeverRaises ==
    Called("decode_data") =>
        /\ ~IsRaise(tres)
        /\ (IsNa(targ) \/ Len(targ.s) < 130) => tres = Tuple3(None, None, None)

\* C18: hex_to_int reads "0x" and hex digits as a big-endian unsigned number
\* ("0x1f4" is 500, "0x0" is 0), and gives 0 for "0x", for the empty string
\* and for a missing value, raising on none of them.
C18_HexToIntZeroForEmpty ==
    Called("hex_to_int") =>
        /\ ~IsRaise(tres)
        /\ (IsNa(targ) \/ targ.s \in {<<>>, <<"0", "x">>}) => tres = IntVal(0)
        /\ targ = Str(<<"0", "x", "1", "f", "4">>) => tres = IntVal(500)
        /\ targ = Str(<<"0", "x", "0">>) => tres = IntVal(0)
        /\ targ = Str(<<"0", "x", "F", "f">>) => tres = IntVal(255)

\* The word is "0x", 24 zeros of padding and 40 more characters.
IsPaddedTopic(x) ==
    /\ x.t = "str"
    /\ Len(x.s) = 66
    /\ SubSeq(x.s, 1, 2) = <<"0", "x">>
    /\ \A i \in 3..26 : x.s[i] = "0"

\* C19: for a topic word of 24 zeros of padding and an address, hex_to_address
\* is "0x" followed by the last 40 characters of the word, each as it was
\* given (upper case stays upper case); a missing word gives None.
C19_AddressIsLastFortyChars ==
    Called("hex_to_address") =>
        /\ IsNa(targ) => tres = None
        /\ IsPaddedTopic(targ) =>
              /\ tres.t = "str"
              /\ Len(tres.s) = 42
              /\ tres.s[1] = "0" /\ tres.s[2] = "x"
              /\ \A i \in 1..40 : tres.s[2 + i] = targ.s[26 + i]

\* An address that begins in upper case and ends in lower case, recovered.
C19_Witness ==
    /\ Called("hex_to_address")
    /\ IsPaddedTopic(targ)
    /\ targ.s[27] = "A"
    /\ tres = Str(<<"0", "x">> \o SampleAddress("A", "f"))

\* The cells of a raw log that can raise: the payload and the hex fields.
CellRaises(row) ==
    \/ IsRaise(decode_data(row.data))
    \/ \E h \in {row.blockNumber, row.timeStamp, row.gasPrice, row.gasUsed,
                 row.logIndex, row.transactionIndex} : IsRaise(hex_to_int(h))

\* C20: a log with k topics gets from_address from topic 1 if k > 1,
\* to_address from topic 2 if k > 2 and message_hash = topic 3 if k > 3, and
\* None in each other case; parse_logs raises only when a payload or a hex
\* field of some row raises, never for the number of topics, and otherwise
\* returns one row per input row, in order.
C20_MissingTopicsGiveNone ==
    Called("parse_logs") =>
        /\ IsRaise(tres) <=> \E i \in DOMAIN targ : CellRaises(targ[i])
        /\ ~IsRaise(tres) =>
              /\ DOMAIN tres.rows = DOMAIN targ
              /\ \A i \in DOMAIN targ :
                    LET k == IF IsNa(targ[i].topics) THEN 0
                             ELSE Len(targ[i].topics.items)
                        r == tres.rows[i]
                    IN  /\ r.tx_hash = targ[i].transactionHash
                        /\ r.from_address =
                             IF k > 1
                             THEN Str(<<"0", "x">> \o SampleAddress("a", "A"))
                             ELSE None
                        /\ r.to_address =
                             IF k > 2
                             THEN Str(<<"0", "x">> \o SampleAddress("F", "9"))
                             ELSE None
                        /\ r.message_hash =
                             IF k > 3 THEN SampleTopics[4] ELSE None

\* A frame of two logs came back: one with all four topics, one with the
\* signature topic only.
C20_Witness ==
    /\ Called("parse_logs")
    /\ ~IsRaise(tres)
    /\ Len(targ) = 2
    /\ targ[1].topics = ListRepr(SampleTopics)
    /\ targ[2].topics = ListRepr(SubSeq(SampleTopics, 1, 1))
    /\ tres.rows[1].message_hash = SampleTopics[4]
    /\ tres.rows[2].from_address = None


\* C21: wei_to_eth divides by 10^18 and lets a missing amount through:
\* 10^18 wei give 1.0, 5 * 10^17 wei give 0.5, 0 wei gives 0.0 and None
\* gives None, not zero.
C21_WeiToEthDividesAndKeepsNone ==
    (Called("wei_to_eth")) =>
        /\ targ = Pow10Int(1, ETH_DECIMALS) => tres = Float(1, 0)
        /\ targ = Pow10Int(5, ETH_DECIMALS - 1) => tres = Float(5, 0 - 1)
        /\ targ = IntVal(0) => tres = Float(0, 0)
        /\ targ = None => tres = None /\ tres # Float(0, 0)
        /\ targ # None => tres.t = "float"
        /\ (targ # None /\ "digits" \notin DOMAIN targ) =>
              tres = Float(targ.v, Exp10(targ) - ETH_DECIMALS)

C21_Witness ==
    /\ Called("wei_to_eth")
    /\ targ = Pow10Int(5, ETH_DECIMALS - 1)
    /\ tres.v = 5
    /\ tres.x = 0 - 1

\* The hashes of the rows of a frame.
Hashes(rows) == {rows[i].hash : i \in DOMAIN rows}

\* The count of removed rows that a call printed, 0 when it printed none.
RemovedCount(r) == IF r.removed = None THEN 0 ELSE r.removed.v

\* What deduplication gives whenever the call returns a frame.
DedupeWhenReturned ==
    (Called("transform_transactions") /\ tres.t = "frame") =>
        /\ Hashes(tres.rows) = Hashes(targ)
        /\ \A i, j \in DOMAIN tres.rows :
              tres.rows[i].hash = tres.rows[j].hash => i = j
        /\ RemovedCount(tres) = Len(targ) - Cardinality(Hashes(targ))

\* C22: for N input rows transform_transactions returns a frame that holds
\* each distinct hash exactly once, and the removed count it reports is N
\* minus the number of distinct hashes.
C22_OutputHoldsEachHashOnce ==
    Called("transform_transactions") =>
        /\ tres.t = "frame"
        /\ Hashes(tres.rows) = Hashes(targ)
        /\ Len(tres.rows) = Cardinality(Hashes(targ))
        /\ RemovedCount(tres) = Len(targ) - Cardinality(Hashes(targ))

\* C23: the numeric parse of the normaliser raises for no input; it reads a
\* value with a "0x" prefix in either letter case as base-16 and any other as
\* a decimal number, and gives 0 for a missing, empty or unparseable value.
C23_NumericParseIsTotal ==
    Called("txs_hex_to_int") =>
        /\ ~IsRaise(tres)
        /\ tres.t = "int"
        /\ (IsNa(targ) \/ Strip(targ.s) = <<>>) => tres = IntVal(0)
        /\ targ = Str(<<"0", "X", "f">>) => tres = IntVal(15)
        /\ targ = Str(<<"0", "x", "1", "0">>) => tres = IntVal(16)
        /\ targ = Str(<<"1", ".", "1">>) => tres = IntVal(1)
        /\ targ = Str(<<"n", "a", "n">>) => tres = IntVal(0)
        /\ targ = Str(<<"0", "x", "n">>) => tres = IntVal(0)

\* C24: validate_logs passes exactly when the raw and decoded row counts are
\* equal, the decoded (tx_hash, log_index) pairs are unique, none of tx_hash,
\* block_number, from_address, value_eth holds a null and no value_eth is
\* negative; a block outside the expected range only warns.
C24_LogsPassIffFourChecks ==
    Called("validate_logs") =>
        LET df_raw    == targ[1]
            df_parsed == targ[2]
            rows      == DOMAIN df_parsed
        IN  tres.ok <=>
              /\ Len(df_raw) = Len(df_parsed)
              /\ \A i, j \in rows :
                    (/\ df_parsed[i].tx_hash = df_parsed[j].tx_hash
                     /\ df_parsed[i].log_index = df_parsed[j].log_index)
                    => i = j
              /\ \A i \in rows :
                    /\ ~IsNa(df_parsed[i].tx_hash)
                    /\ ~IsNa(df_parsed[i].block_number)
                    /\ ~IsNa(df_parsed[i].from_address)
                    /\ ~IsNa(df_parsed[i].value_eth)
              /\ \A i \in rows :
                    IsNa(df_parsed[i].value_eth) \/ df_parsed[i].value_eth.v >= 0

\* A call that passed although a block lies below the expected range.
C24_Witness ==
    /\ Called("validate_logs")
    /\ Len(targ[2]) = 2
    /\ \E i \in DOMAIN targ[2] :
          targ[2][i].block_number = IntVal(LOGS_MIN_BLOCK - 1)
    /\ tres.ok
    /\ tres.warned

\* C25: every check a reconciler prints as failed is in its list of
\* violations and makes the result fail, the duplicate hashes of
\* validate_transactions among them.
C25_ReportedChecksFailTheResult ==
    (Called("validate_logs") \/ Called("validate_transactions")) =>
        /\ \A i \in DOMAIN tres.crosses :
              \E j \in DOMAIN tres.errors : tres.errors[j] = tres.crosses[i]
        /\ tres.crosses # <<>> => ~tres.ok
        /\ (/\ tfn = "validate_transactions"
            /\ \E i, j \in DOMAIN targ[2].rows :
                  i # j /\ targ[2].rows[i].hash = targ[2].rows[j].hash)
           => ~tres.ok

\* The step in which a loader ensures a table.
EnsureStep == lpc \in {"create", "create_logs", "create_txs"}

\* C26: ensuring a table that exists leaves its rows and structure as they
\* were, so load_all_transformed_data without truncate_existing keeps every
\* row the two tables held before the run.
C26_EnsureKeepsExistingRows ==
    /\ [][EnsureStep =>
             \A t \in DOMAIN db : db[t].exists => db'[t] = db[t]]_vars
    /\ []((loader = "transformed" /\ ~truncate_existing) =>
             \A t \in DOMAIN db :
                 /\ db0[t].exists => db[t].exists
                 /\ IsPrefix(db0[t].rows, db[t].rows))

\* The run reached the load of the partition, or the partition has no file.
Processed(part) ==
    \/ part.files = <<>>
    \/ Events(hist[part.table]) \cap
          {"copy", "empty_file", "copy_failed", "ensure_failed",
           "truncate_failed"} # {}

\* C29: in both loaders a failure of one partition's ensure, truncate or load
\* is contained: when the run is over every partition was processed, and no
\* batch is appended to a table after its ensure or truncate failed.
C29_FailureIsContained ==
    /\ RunOver => \A i \in DOMAIN parts : Processed(parts[i])
    /\ \A t \in DOMAIN hist :
          \A i \in Positions(hist[t], "ensure_failed")
                    \cup Positions(hist[t], "truncate_failed") :
              \A j \in Positions(hist[t], "copy") : j < i

\* C30: load_all_parquet_files_to_raw_tables adds no row for a file whose
\* name the destination's source_file column held when the run began, and
\* check_table_loaded reports file_loaded true exactly when a row of the
\* table carries the file name.
C30_IngestedFileNotLoadedAgain ==
    /\ [][(/\ loader = "parquet" /\ lpc = "files" /\ fi <= Len(Part.files)
           /\ check_table_loaded(db0, Table, Part.files[fi].name).file_loaded
                 = "True")
          => tx'[Table].rows = tx[Table].rows]_vars
    /\ [](loader = "parquet" =>
            \A i \in DOMAIN parts : \A j \in DOMAIN parts[i].files :
                (check_table_loaded(db, parts[i].table,
                                    parts[i].files[j].name).file_loaded = "True")
                <=> \E k \in DOMAIN db[parts[i].table].rows :
                       db[parts[i].table].rows[k].file = parts[i].files[j].name)

\* C27: get_block_by_date returns the integer block number when the API
\* answers with status "1", and raises in every other case; it makes one
\* request at most, and returns neither a default nor a partial value.
C27_BlockOrError ==
    /\ block_call.requests <= 1
    /\ block_call.pc \in {"returned", "raised"} =>
          /\ block_call.pc = "returned" <=> block_call.resp.kind = "status1"
          /\ block_call.pc = "returned" => block_call.result = block_call.resp.block
          /\ block_call.pc = "raised" => block_call.error # ""

\* The API answered a date with status "0" and the call raised.
C27_Witness ==
    /\ block_call.pc = "raised"
    /\ block_call.requests = 1
    /\ block_call.resp.kind = "status0"
    /\ block_call.error = "ValueError"

\* C28: get_all_logs fails whenever from_block > to_block: such a call never
\* returns a list of logs.
C28_InvalidRangeFails ==
    from_block > to_block => cpc # "done"

\* The table column a column of the batch is loaded into.
TableColumn(loader_fn, col) ==
    IF loader_fn = "load_transactions_csv" THEN column_mapping(col) ELSE col

\* C31: a batch that lacks optional columns of the table is loaded, and its
\* rows have NULL in those columns and the batch's values in the others; a
\* batch lacking columns is rejected only when a required one is among them.
C31_MissingOptionalColumnsAreNull ==
    Called("copy_batch") =>
        LET all == IF targ.fn = "load_etherscan_logs_csv"
                   THEN ElementsOf(LogsCsvColumns)
                   ELSE IF targ.fn = "load_transactions_csv"
                   THEN ElementsOf(TxsCsvColumns)
                   ELSE {"col_a", "col_b"}
            absent == {TableColumn(targ.fn, c) : c \in all \ targ.present}
        IN  /\ IsRaise(tres) <=> absent \cap targ.required # {}
            /\ ~IsRaise(tres) =>
                  /\ \A c \in absent : tres.row[c] = "NULL"
                  /\ \A c \in targ.present \cap all :
                        tres.row[TableColumn(targ.fn, c)] = "value"

\* A batch of transactions without the columns to and methodId was loaded.
C31_Witness ==
    /\ Called("copy_batch")
    /\ targ.fn = "load_transactions_csv"
    /\ ElementsOf(TxsCsvColumns) \ targ.present = {"to", "methodId"}
    /\ tres.t = "copied"
    /\ tres.row["to_address"] = "NULL"
    /\ tres.row["method_id"] = "NULL"
    /\ tres.row["from_address"] = "value"

\* C32: the conversions keep full precision: for every amount of wei the log
\* decoder and the normaliser give exactly wei / 10^18 ether, and the
\* normaliser exactly wei / 10^9 gwei.
C32_ConversionsAreExact ==
    /\ (Called("wei_to_eth") /\ targ.t = "int") =>
            tres = DecFloat(Digits(targ), 0 - ETH_DECIMALS)
    /\ (Called("txs_wei_to_eth") /\ targ.t = "int") =>
            tres = DecFloat(Digits(targ), 0 - ETH_DECIMALS)
    /\ (Called("wei_to_gwei") /\ targ.t = "int") =>
            tres = DecFloat(Digits(targ), 0 - GWEI_DECIMALS)

\* The number of rows the run loaded from the file of dataset i: the rows of
\* the file when its COPY was run, 0 otherwise.
LoadedInRun(i) ==
    IF "copy" \in Events(hist[parts[i].table]) THEN parts[i].files[1].rows ELSE 0

\* C33: the dictionary load_all_transformed_data returns holds under
\* 'bridge_logs' the number of log rows the run loaded and under
\* 'transactions' the number of transaction rows it loaded, 0 for a dataset
\* that was not loaded.
C33_ResultsHoldLoadedCounts ==
    (loader = "transformed" /\ lpc = "closed") =>
        /\ results["bridge_logs"] = LoadedInRun(1)
        /\ results["transactions"] = LoadedInRun(2)

\* The rows of all_logs that the request of range q returned.
RowsOfChunk(q) == SelectSeq(all_logs, LAMBDA r : r.q = q)

RECURSIVE InChunkOrder(_)
InChunkOrder(rs) ==
    IF rs = <<>> THEN <<>>
    ELSE RowsOfChunk(Head(rs)) \o InChunkOrder(Tail(rs))

\* C34: get_all_logs requests its chunks one after another in ascending
\* block order, each once; all_logs is the chunks' results in chunk order;
\* and no chunk's early end stops the run: when the call is over, the chunks
\* up to to_block were all requested.
C34_ChunksSequentialAndContained ==
    /\ \A i \in DOMAIN ranges :
          i < Len(ranges) => ranges[i][2] < ranges[i + 1][1]
    /\ all_logs = InChunkOrder(ranges)
    /\ (cpc \in {"done", "raised"} /\ from_block <= to_block) =>
          /\ ranges # <<>>
          /\ ranges[Len(ranges)][2] = to_block

\* The rows a call holds beyond the full pages before the page it is at.
LastPageRows ==
    SubSeq(fetch.rows, (fetch.page - 1) * PageSize + 1, Len(fetch.rows))

\* C35: within one call pages are requested with consecutive numbers from 1;
\* the page after page n is requested only when page n returned a full page;
\* a page that was fetched is not requested again; and at every point the
\* rows held are the rows of pages 1..k in order, each row once: the full
\* pages before the current one, then the rows of the current page if it
\* was fetched.
C35_PagesAreConsecutive ==
    /\ [](fetch.pc # "idle" =>
            /\ fetch.page >= 1
            /\ Len(fetch.rows) >= (fetch.page - 1) * PageSize
            /\ SubSeq(fetch.rows, 1, (fetch.page - 1) * PageSize)
                   = FullPages(fn, Query, fetch.page - 1)
            /\ Len(LastPageRows) <= PageSize
            /\ \A i \in DOMAIN LastPageRows :
                   /\ LastPageRows[i].q = Query
                   /\ LastPageRows[i].page = fetch.page
                   /\ LastPageRows[i].idx = i
            /\ fetch.pc = "request" => LastPageRows = <<>>)
    /\ [][(fetch.pc # "request" /\ fetch'.pc = "request") =>
            fetch'.page = 1 /\ fetch'.rows = <<>>]_vars
    /\ [][AttemptStep =>
            /\ fetch'.page \in {fetch.page, fetch.page + 1}
            /\ IsPrefix(fetch.rows, fetch'.rows)
            /\ fetch'.page = fetch.page + 1 <=>
                  (fetch'.pc = "request" /\ lastResp' = "page"
                   /\ Len(fetch'.rows) = Len(fetch.rows) + PageSize)
            /\ fetch'.rows # fetch.rows =>
                  fetch'.page = fetch.page + 1 \/ fetch'.pc = "returned"]_vars

\* A call of get_transactions that fetched two full pages and ended at the
\* request for the third.
C35_Witness ==
    /\ fn = "txs"
    /\ fetch.pc = "returned"
    /\ fetch.page = 3
    /\ Len(fetch.rows) = 2 * PageSize

\* How many times the record r occurs in a list.
Occurrences(seq, r) == Cardinality({k \in DOMAIN seq : seq[k] = r})

\* How many times r occurs in the results of the first n addresses.
RECURSIVE ReturnedTimes(_, _)
ReturnedTimes(r, n) ==
    IF n = 0 THEN 0
    ELSE ReturnedTimes(r, n - 1) + Occurrences(futures[n].res.rows, r)

AllReturned == UNION {Range(futures[i].res.rows) : i \in DOMAIN futures}

\* The aggregate holds exactly the records returned for each address, as a
\* multiset.
AggregateIsComplete ==
    \A r \in AllReturned \cup Range(all_transactions) :
        Occurrences(all_transactions, r) = ReturnedTimes(r, Len(futures))

\* C36: when extract_all_wallet_transactions is over, whatever the order in
\* which the workers completed, every address of the input was fetched and
\* collected, the completed-count is the number of addresses and the
\* aggregate holds exactly the records returned for each address, none lost
\* and none twice.
C36_EveryAddressAggregatedOnce ==
    (epc \in {"done", "raised"}) =>
        /\ \A i \in DOMAIN futures : futures[i].st = "collected"
        /\ processed = Len(wallets)
        /\ AggregateIsComplete

\* C37: every fetch terminates.  With the API serving at most MaxPages full
\* pages per query, a call of get_logs_for_range or get_transactions that was
\* started ends (it returns, or an exception leaves it) whatever the mix of
\* failed and successful responses, having asked for at most one page past
\* the last full one with fewer than max_retries failures on the page it is
\* at; and get_all_logs ends for every from_block, to_block and
\* chunk_size > 0.
C37_EveryFetchTerminates ==
    /\ [](fetch.pc = "request" =>
            fetch.page <= MaxPages + 1 /\ fetch.attempt < max_retries)
    /\ (fetch.pc = "request") ~> (fetch.pc \in {"returned", "raised"})
    /\ (cpc = "loop") ~> (cpc \in {"done", "raised"})

\* A call of get_logs_for_range took every full page the API serves and
\* ended when the request for the page after them failed max_retries times.
C37_Witness ==
    /\ cpc = "idle"
    /\ fn = "logs"
    /\ fetch.pc = "returned"
    /\ fetch.why = "exhausted"
    /\ fetch.page = MaxPages + 1
    /\ max_retries = MaxRetries

\* The rows committed in table t that the run put there: all of them once
\* the run truncated the table, otherwise those after the rows the table
\* held when the run started.
CommittedByRun(t) ==
    IF "truncate" \in Events(hist[t]) THEN db[t].rows
    ELSE SubSeq(db[t].rows, Len(db0[t].rows) + 1, Len(db[t].rows))

RECURSIVE CommittedInParts(_)
CommittedInParts(n) ==
    IF n = 0 THEN 0
    ELSE CommittedInParts(n - 1) + Len(CommittedByRun(parts[n].table))

\* C38: the total of load_all_parquet_files_to_raw_tables is the number of
\* rows the run has committed in the destination tables, at the end of the
\* run and after every step of it: the total grows only by a batch whose
\* rows were committed, by the number of those rows, and a step that leaves
\* the total alone adds no row to a committed table.
C38_TotalCountsCommittedRows ==
    /\ [](loader = "parquet" => total_inserted = CommittedInParts(Len(parts)))
    /\ [][loader = "parquet" =>
            IF total_inserted' # total_inserted
            THEN /\ lpc = "files"
                 /\ db'[Table].rows = db[Table].rows \o FileRows(Part.files[fi])
                 /\ total_inserted' = total_inserted + Part.files[fi].rows
            ELSE \A t \in DOMAIN db : Len(db'[t].rows) <= Len(db[t].rows)]_vars

\* A finished run that counted the batch it committed and not the batch
\* that failed, next to a table that kept an earlier run's rows because
\* its truncate failed.
C38_Witness ==
    /\ loader = "parquet"
    /\ lpc = "closed"
    /\ total_inserted = 1
    /\ \E t \in DOMAIN hist :
          {"copy", "copy_failed"} \subseteq Events(hist[t])
    /\ \E t \in DOMAIN hist :
          "truncate_failed" \in Events(hist[t]) /\ db[t].rows # <<>>

\* The run opened a connection: the parquet loader returns before
\* get_db_connection when the directory holds no parquet file.
ConnOpened == ~(loader = "parquet" /\ parts = <<>>)

\* C39: in both loaders the connection is closed exactly once on every way
\* out of the run: it is open while the run goes on, which it does until it
\* returns or an exception leaves it; it has been closed once when the run
\* is over, whether by return, after contained failures, or by an
\* exception; and once it is closed no statement, commit or rollback
\* follows.
C39_ConnectionClosedOnce ==
    /\ [](closes <= 1)
    /\ [](ConnOpened => (RunOver <=> closes = 1))
    /\ [](~ConnOpened => closes = 0)
    /\ []((ConnOpened /\ closes = 0) => ENABLED LoadNext)
    /\ [][closes >= 1 => UNCHANGED loadVars]_vars

\* The parquet loader contained the failure of one file and was then left
\* by the exception of the chain's commit.
C39_Witness ==
    /\ loader = "parquet"
    /\ lpc = "raised"
    /\ closes = 1
    /\ \E t \in DOMAIN hist :
          {"copy_failed", "chain_commit_failed"} \subseteq Events(hist[t])

==============================================================================
